---------------------------- MODULE Spec2Model ----------------------------
(***************************************************************************)
(* Model of the corridor generator (src/lib/corridor-generator-complete.py)*)
(* , of the placement of the three-stage processor                         *)
(* (src/lib/three-stage-processor.py) and of the shoelace routines of both *)
(* and of src/floorplan_processor.py.                                      *)
(*                                                                         *)
(* Lengths are integers in centimetres (1.2 m = 120), areas in square      *)
(* centimetres (2.0 m^2 = 20000), so that the 0.1 m merge tolerance, the   *)
(* 0.5 m safety margin and the halves taken of corridor sizes are exact.   *)
(* A list of records of the program is a sequence; where the program keeps *)
(* references to the same room object in several lists, the model keeps    *)
(* the room's position in the input list.                                  *)
(***************************************************************************)
EXTENDS Integers, Sequences, FiniteSets, TLC

VARIABLES
    pc,            \* position of the harness that is running
    \* -- _identify_room_clusters / _explore_cluster / _identify_room_rows
    rooms,         \* the analysed rooms (records with id and centroid)
    visited,       \* set of room ids marked visited
    clusters,      \* clusters closed so far (sequences of room positions)
    cluster,       \* the cluster being explored
    stack,         \* call stack of _explore_cluster: <<[room, pos]>>
    outerIdx,      \* position of the for loop of _identify_room_clusters
    evals,         \* number of centroid distances evaluated
    explored,      \* rooms for which _explore_cluster passed its guard
    room_rows,     \* result of _identify_room_rows
    \* -- generate_corridor_network: its inputs and its locals
    entrances,            \* analysis['entrances']
    bounds,               \* analysis['bounds']
    corridor_width,       \* options.get('corridor_width', self.corridor_width)
    generate_arrows,      \* options.get('generate_arrows', True)
    main_corridors,
    connecting_corridors,
    access_corridors,
    vertical_corridors,
    corridors,            \* the list the steps extend, the Optimizer's input
    corridor_arrows,
    optimized_corridors,  \* _optimize_corridor_network(corridors)
    result,               \* the dictionary generate_corridor_network returns
    reoptimized,          \* the Optimizer run on its own output
    \* -- _place_ilots_optimally: its argument and its locals
    ilots,
    suitable_rooms,       \* positions in rooms, sorted by area, largest first
    room_usage,           \* room id -> [used_area, ilots]
    sorted_ilots,
    next_ilot,            \* position of the for loop over sorted_ilots
    placed_ilots,
    \* -- the shoelace routines
    polygon,              \* the vertex list handed to the routines
    first_measure,        \* the first list measured and its areas
    areas,                \* the areas of polygon by the three routines
    \* -- _generate_ilots_by_distribution: its arguments
    distribution,         \* the (category, fraction) items of the mapping, in order
    target_area,
    \* -- the entry points: their input and the streams of main
    floor_plan,           \* floor_plan_data as the caller hands it in
    stdin,                \* what sys.stdin.read() returns
    sys_stdout,           \* the stream sys.stdout is bound to
    stdout_written,       \* the writes that reached the real standard output
    stderr_written,       \* the writes that reached standard error
    analyzed_rooms,       \* analyzed_rooms of process_stage1_empty_plan
    raised                \* <<e>>: exception e left the entry point

varsCluster == <<rooms, visited, clusters, cluster, stack, outerIdx, evals, explored>>

varsInput == <<entrances, bounds, corridor_width, generate_arrows>>

varsNetwork ==
    <<main_corridors, connecting_corridors, access_corridors, vertical_corridors,
      corridors, corridor_arrows, optimized_corridors, result, reoptimized>>

varsPlacement == <<ilots, suitable_rooms, room_usage, sorted_ilots, next_ilot, placed_ilots>>

varsArea == <<polygon, first_measure, areas>>

varsGenerate == <<distribution, target_area>>

varsEntry ==
    <<floor_plan, stdin, sys_stdout, stdout_written, stderr_written, analyzed_rooms, raised>>

vars ==
    <<pc, varsCluster, room_rows, varsInput, varsNetwork, varsPlacement, varsArea,
      varsGenerate, varsEntry>>

---------------------------------------------------------------------------
(* Generic helpers                                                         *)

Abs(v) == IF v < 0 THEN -v ELSE v

Min2(a, b) == IF a <= b THEN a ELSE b

Max2(a, b) == IF a >= b THEN a ELSE b

SeqsUpTo(S, n) == UNION {[1..k -> S] : k \in 0..n}

Range(s) == {s[i] : i \in DOMAIN s}

Last(s) == s[Len(s)]

Front(s) == SubSeq(s, 1, Len(s) - 1)

RECURSIVE SumSeq(_)
SumSeq(s) == IF s = <<>> THEN 0 ELSE Head(s) + SumSeq(Tail(s))

RECURSIVE Flatten(_)
Flatten(ss) == IF ss = <<>> THEN <<>> ELSE Head(ss) \o Flatten(Tail(ss))

\* Count of the positions of s holding e.
Occurrences(s, e) == Cardinality({i \in DOMAIN s : s[i] = e})

(* Python's list.sort / sorted: stable, ascending by key[e].               *)
RECURSIVE InsertAsc(_, _, _)
InsertAsc(s, e, key) ==
    IF s = <<>> THEN <<e>>
    ELSE IF key[Last(s)] <= key[e] THEN Append(s, e)
    ELSE Append(InsertAsc(Front(s), e, key), Last(s))

RECURSIVE SortAsc(_, _)
SortAsc(s, key) ==
    IF s = <<>> THEN <<>>
    ELSE InsertAsc(SortAsc(Front(s), key), Last(s), key)

(* Python's sort with reverse=True: descending, equal keys keep their order *)
RECURSIVE InsertDesc(_, _, _)
InsertDesc(s, e, key) ==
    IF s = <<>> THEN <<e>>
    ELSE IF key[Last(s)] >= key[e] THEN Append(s, e)
    ELSE Append(InsertDesc(Front(s), e, key), Last(s))

RECURSIVE SortDesc(_, _)
SortDesc(s, key) ==
    IF s = <<>> THEN <<>>
    ELSE InsertDesc(SortDesc(Front(s), key), Last(s), key)

(* What a sort leaves in the list it is given.  list.sort() sorts the      *)
(* list in place; sorted(list) returns a new list and leaves its argument. *)
ListSort(list, sorted_list) == sorted_list

Sorted(list, sorted_list) == list

---------------------------------------------------------------------------
(* Cluster & row detector                                                  *)

\* Bound on the number of rooms of an analysed floor plan.
MaxRooms == 4

\* max_distance=10.0 of _identify_room_clusters, in centimetres.
max_distance == 1000

\* Row tolerance 8.0 of _identify_room_rows, in centimetres.
row_tolerance == 800

\* Centroids the rooms are drawn from: (0,0)-(10,0) are exactly 10 m apart,
\* (0,0)-(0,9) are 9 m apart (linked, but not in one row), (0,0)-(10,9)
\* are linked only through a third room.
CentroidXs == {0, 1000}

CentroidYs == {0, 900}

\* analyze_floor_plan: 'id': room.get('id', f'room_{i}').  0 stands for an
\* id the input supplies (the same for every room that supplies it), i > 0
\* for the default id of the room at position i.
RoomIdChoices(i) == {0, i}

RoomLists ==
    {rs \in SeqsUpTo([id : 0..MaxRooms, centroid : [x : CentroidXs, y : CentroidYs]], MaxRooms) :
        \A i \in DOMAIN rs : rs[i].id \in RoomIdChoices(i)}

\* math.sqrt(dx**2 + dy**2) <= max_distance, compared on the squares.
WithinDistance(c1, c2, d) ==
    (c1.x - c2.x) * (c1.x - c2.x) + (c1.y - c2.y) * (c1.y - c2.y) <= d * d

\* Positions >= p of all_rooms that the scan loop of _explore_cluster does
\* not skip: their id is not visited.
Unvisited(p, q) == {k \in p..q : rooms[k].id \notin visited}

\* The first position >= p within the distance, visited or not.
NextNeighbourAmongAll(r, p) ==
    LET hits == {k \in p..Len(rooms) :
                    WithinDistance(rooms[r].centroid, rooms[k].centroid, max_distance)}
    IN IF hits = {} THEN 0 ELSE CHOOSE k \in hits : \A j \in hits : k <= j

\* The first position >= p at which the loop of _explore_cluster recurses,
\* or 0 when the loop runs to its end.
NextNeighbour(r, p) ==
    LET hits == {k \in p..Len(rooms) :
                    /\ rooms[k].id \notin visited
                    /\ WithinDistance(rooms[r].centroid, rooms[k].centroid, max_distance)}
    IN IF hits = {} THEN 0 ELSE CHOOSE k \in hits : \A j \in hits : k <= j

\* The state of _identify_room_clusters when it starts.
ClusterStart ==
    /\ visited = {}
    /\ clusters = <<>>
    /\ cluster = <<>>
    /\ stack = <<>>
    /\ outerIdx = 1
    /\ evals = 0
    /\ explored = <<>>

\* The locals of generate_corridor_network before its steps assign them.
NetworkStart ==
    /\ main_corridors = <<>>
    /\ connecting_corridors = <<>>
    /\ access_corridors = <<>>
    /\ vertical_corridors = <<>>
    /\ corridors = <<>>
    /\ corridor_arrows = <<>>
    /\ optimized_corridors = <<>>
    /\ result = <<>>
    /\ reoptimized = <<>>

\* The locals of _place_ilots_optimally before it runs.
PlacementStart ==
    /\ ilots = <<>>
    /\ suitable_rooms = <<>>
    /\ room_usage = <<>>
    /\ sorted_ilots = <<>>
    /\ next_ilot = 1
    /\ placed_ilots = <<>>

\* No vertex list measured.
AreaStart ==
    /\ polygon = <<>>
    /\ first_measure = <<>>
    /\ areas = <<>>

\* No distribution handed to _generate_ilots_by_distribution.
GenerateStart ==
    /\ distribution = <<>>
    /\ target_area = 0

\* No floor plan handed to an entry point; main not started.
EntryStart ==
    /\ floor_plan = <<>>
    /\ stdin = <<>>
    /\ sys_stdout = "stdout"
    /\ stdout_written = <<>>
    /\ stderr_written = <<>>
    /\ analyzed_rooms = <<>>
    /\ raised = <<>>

\* The defaults of analyze_floor_plan and of generate_corridor_network.
DefaultBounds == [minX |-> 0, minY |-> 0, maxX |-> 10000, maxY |-> 10000]

DefaultInput ==
    /\ entrances = <<>>
    /\ bounds = DefaultBounds
    /\ corridor_width = 120
    /\ generate_arrows = TRUE

InitCluster ==
    /\ pc = "outer"
    /\ GenerateStart
    /\ EntryStart
    /\ PlacementStart
    /\ AreaStart
    /\ rooms \in RoomLists
    /\ ClusterStart
    /\ room_rows = <<>>
    /\ DefaultInput
    /\ NetworkStart

\* for room in rooms: if room['id'] in visited: continue
OuterSkip ==
    /\ pc = "outer"
    /\ outerIdx <= Len(rooms)
    /\ rooms[outerIdx].id \in visited
    /\ outerIdx' = outerIdx + 1
    /\ UNCHANGED <<pc, rooms, visited, clusters, cluster, stack, evals, explored>>
    /\ UNCHANGED <<room_rows, varsInput, varsPlacement, varsArea, varsNetwork,
                   varsGenerate, varsEntry>>

\* cluster = []; self._explore_cluster(room, ...): the callee's guard passes,
\* it marks the room visited and appends it, then starts its scan loop.
OuterExplore ==
    /\ pc = "outer"
    /\ outerIdx <= Len(rooms)
    /\ rooms[outerIdx].id \notin visited
    /\ visited' = visited \cup {rooms[outerIdx].id}
    /\ cluster' = <<outerIdx>>
    /\ explored' = Append(explored, outerIdx)
    /\ stack' = <<[room |-> outerIdx, pos |-> 1]>>
    /\ pc' = "explore"
    /\ UNCHANGED <<rooms, clusters, outerIdx, evals>>
    /\ UNCHANGED <<room_rows, varsInput, varsPlacement, varsArea, varsNetwork,
                   varsGenerate, varsEntry>>

\* The scan loop of the top frame runs up to its next recursive call: the
\* rooms it passes are skipped (visited) or measured and found too far; the
\* callee marks the neighbour visited and appends it to the cluster.
ScanRecurse ==
    /\ pc = "explore"
    /\ stack # <<>>
    /\ LET top == stack[Len(stack)]
           q == NextNeighbour(top.room, top.pos)
       IN /\ q # 0
          /\ evals' = evals + Cardinality(Unvisited(top.pos, q))
          /\ visited' = visited \cup {rooms[q].id}
          /\ cluster' = Append(cluster, q)
          /\ explored' = Append(explored, q)
          /\ stack' = Append([stack EXCEPT ![Len(stack)].pos = q + 1],
                             [room |-> q, pos |-> 1])
    /\ UNCHANGED <<pc, rooms, clusters, outerIdx>>
    /\ UNCHANGED <<room_rows, varsInput, varsPlacement, varsArea, varsNetwork,
                   varsGenerate, varsEntry>>

\* The scan loop of the top frame runs to its end and the call returns.
ScanReturn ==
    /\ pc = "explore"
    /\ stack # <<>>
    /\ LET top == stack[Len(stack)]
       IN /\ NextNeighbour(top.room, top.pos) = 0
          /\ evals' = evals + Cardinality(Unvisited(top.pos, Len(rooms)))
    /\ stack' = SubSeq(stack, 1, Len(stack) - 1)
    /\ UNCHANGED <<pc, rooms, visited, clusters, cluster, outerIdx, explored>>
    /\ UNCHANGED <<room_rows, varsInput, varsPlacement, varsArea, varsNetwork,
                   varsGenerate, varsEntry>>

\* Back in _identify_room_clusters: if cluster: clusters.append(cluster)
ClusterClose ==
    /\ pc = "explore"
    /\ stack = <<>>
    /\ clusters' = IF cluster # <<>> THEN Append(clusters, cluster) ELSE clusters
    /\ outerIdx' = outerIdx + 1
    /\ pc' = "outer"
    /\ UNCHANGED <<rooms, visited, cluster, stack, evals, explored>>
    /\ UNCHANGED <<room_rows, varsInput, varsPlacement, varsArea, varsNetwork,
                   varsGenerate, varsEntry>>

\* return clusters
ClustersReturn ==
    /\ pc = "outer"
    /\ outerIdx > Len(rooms)
    /\ pc' = "clustered"
    /\ UNCHANGED <<varsCluster, room_rows, varsInput, varsPlacement, varsArea, varsNetwork,
                   varsGenerate, varsEntry>>

(* _identify_room_rows for one cluster: walk the rooms sorted by Y.        *)
CentroidY(rs) == [i \in DOMAIN rs |-> rs[i].centroid.y]

CentroidX(rs) == [i \in DOMAIN rs |-> rs[i].centroid.x]

\* if len(current_row) >= 2: current_row.sort(key=x); rows.append(current_row)
CloseRowKeepingSingles(rs, rows, current_row) ==
    Append(rows, SortAsc(current_row, CentroidX(rs)))

\* The row appended as it was accumulated, in Y order.
CloseRowUnsorted(rs, rows, current_row) ==
    IF Len(current_row) >= 2 THEN Append(rows, current_row) ELSE rows

CloseRow(rs, rows, current_row) ==
    IF Len(current_row) >= 2
    THEN Append(rows, SortAsc(current_row, CentroidX(rs)))
    ELSE rows

RECURSIVE RowWalk(_, _, _, _, _)
RowWalk(rs, sorted_rooms, i, current_row, rows) ==
    IF i > Len(sorted_rooms) THEN CloseRow(rs, rows, current_row)
    ELSE LET room_y == rs[sorted_rooms[i]].centroid.y
             row_y == rs[current_row[Len(current_row)]].centroid.y
         IN IF Abs(room_y - row_y) <= row_tolerance
            THEN RowWalk(rs, sorted_rooms, i + 1, Append(current_row, sorted_rooms[i]), rows)
            ELSE RowWalk(rs, sorted_rooms, i + 1, <<sorted_rooms[i]>>,
                         CloseRow(rs, rows, current_row))

RECURSIVE IdentifyRoomRows(_, _, _)
IdentifyRoomRows(rs, cs, rows) ==
    IF cs = <<>> THEN rows
    ELSE IF Len(Head(cs)) < 2 THEN IdentifyRoomRows(rs, Tail(cs), rows)
    ELSE LET sorted_rooms == SortAsc(Head(cs), CentroidY(rs))
         IN IdentifyRoomRows(rs, Tail(cs),
                RowWalk(rs, sorted_rooms, 2, <<sorted_rooms[1]>>, rows))

\* room_rows = self._identify_room_rows(room_clusters)
\* Each cluster of two or more rooms goes through
\* sorted(cluster, key=lambda r: r['centroid']['y']).
IdentifyRows ==
    /\ pc = "clustered"
    /\ room_rows' = IdentifyRoomRows(rooms, clusters, <<>>)
    /\ clusters' = [k \in DOMAIN clusters |->
                       IF Len(clusters[k]) < 2 THEN clusters[k]
                       ELSE Sorted(clusters[k], SortAsc(clusters[k], CentroidY(rooms)))]
    /\ pc' = "rows"
    /\ UNCHANGED <<rooms, visited, cluster, stack, outerIdx, evals, explored, varsInput,
                   varsPlacement, varsArea, varsNetwork, varsGenerate, varsEntry>>

NextCluster ==
    \/ OuterSkip
    \/ OuterExplore
    \/ ScanRecurse
    \/ ScanReturn
    \/ ClusterClose
    \/ ClustersReturn
    \/ IdentifyRows

SpecCluster == InitCluster /\ [][NextCluster]_vars

---------------------------------------------------------------------------
(* Properties of the cluster & row detector                                *)

ClustersReturned == pc \in {"clustered", "rows"}

InCluster(c, i) == i \in Range(clusters[c])

SameCluster(i, j) == \E c \in DOMAIN clusters : InCluster(c, i) /\ InCluster(c, j)

\* Rooms linked to room i by a chain of rooms whose consecutive centroids
\* are within max_distance.
RECURSIVE LinkedFrom(_)
LinkedFrom(S) ==
    LET T == S \cup {k \in DOMAIN rooms : \E j \in S :
                        WithinDistance(rooms[j].centroid, rooms[k].centroid, max_distance)}
    IN IF T = S THEN S ELSE LinkedFrom(T)

Linked(i, j) == j \in LinkedFrom({i})

\* C1: the clusters returned by _identify_room_clusters partition the room
\* list: every input room (ids not assumed distinct) appears in exactly one
\* cluster, exactly once.
C1_ClustersPartitionRooms ==
    ClustersReturned =>
        \A i \in DOMAIN rooms : Occurrences(Flatten(clusters), i) = 1

\* C2: the clusters are exactly the connected components of the proximity
\* graph: two rooms are in the same cluster if and only if a chain of rooms
\* at centroid distance <= 10 links them.
C2_ClustersAreComponents ==
    ClustersReturned =>
        \A i, j \in DOMAIN rooms : SameCluster(i, j) <=> Linked(i, j)

RowsReturned == pc = "rows"

RowRooms(r) == Range(room_rows[r])

\* C3: every row of _identify_room_rows has at least 2 rooms, all of one
\* cluster, no room is in two rows (or twice in one), and a cluster of 0 or
\* 1 rooms contributes no row.
C3_RowsWellFormed ==
    RowsReturned =>
        /\ \A r \in DOMAIN room_rows :
              /\ Len(room_rows[r]) >= 2
              /\ Cardinality(RowRooms(r)) = Len(room_rows[r])
              /\ \E c \in DOMAIN clusters : RowRooms(r) \subseteq Range(clusters[c])
        /\ \A r1, r2 \in DOMAIN room_rows : r1 # r2 => RowRooms(r1) \cap RowRooms(r2) = {}
        /\ \A c \in DOMAIN clusters :
              Len(clusters[c]) < 2 =>
                  \A r \in DOMAIN room_rows : RowRooms(r) \cap Range(clusters[c]) = {}

\* Two rows were cut from one cluster of four rooms.
C3_Witness ==
    /\ RowsReturned
    /\ Len(clusters) = 1
    /\ Len(room_rows) = 2

---------------------------------------------------------------------------
(* Corridor records and the constructors of the router                     *)

\* self.corridor_width = 1.2 and self.safety_margin = 0.5, in centimetres.
default_corridor_width == 120

safety_margin == 50

\* v / 2; the model draws its inputs so that the halved sizes are even.
Half(v) == v \div 2

\* A corridor dictionary.  A constructor leaves 'id' and 'type' to its
\* caller: the model carries them as <<>> and "" until the caller sets them.
\* An id f'access_corridor_{i}' is the tuple <<"access_corridor", i>>.
Corridor(x, y, width, height, area, direction) ==
    [id |-> <<>>, type |-> "", x |-> x, y |-> y, width |-> width, height |-> height,
     area |-> area, direction |-> direction]

Tagged(c, id, type) == [c EXCEPT !.id = id, !.type = type]

\* {'x': c['x'] + c['width'] / 2, 'y': c['y'] + c['height'] / 2}
CorridorCenter(c) == [x |-> c.x + Half(c.width), y |-> c.y + Half(c.height)]

\* A Python list [x, y] in the place of a point: a mapping of its two
\* indices, on which the subscripts ['x'] and ['y'] raise.
PyList(x, y) == [k \in {"0", "1"} |-> IF k = "0" THEN x ELSE y]

\* point['x'] and point['y'] do not raise.
Keyed(point) == {"x", "y"} \subseteq DOMAIN point

\* The square of math.sqrt(dx**2 + dy**2): distances are compared on it.
Distance2(p, q) == (p.x - q.x) * (p.x - q.x) + (p.y - q.y) * (p.y - q.y)

(* _find_nearest_corridor: the position of the first corridor at the least *)
(* centre distance (distance < min_distance keeps the first), 0 for None;  *)
(* a point without the keys raises in the loop and the except branch       *)
(* returns None.                                                           *)
FindNearestCorridor(point, cs) ==
    IF cs = <<>> \/ ~Keyed(point) THEN 0
    ELSE CHOOSE k \in DOMAIN cs :
            \A j \in DOMAIN cs :
                \/ Distance2(point, CorridorCenter(cs[k])) < Distance2(point, CorridorCenter(cs[j]))
                \/ (Distance2(point, CorridorCenter(cs[k])) = Distance2(point, CorridorCenter(cs[j])) /\ k <= j)

(* _create_access_corridor                                                 *)
CreateAccessCorridorSwapped(entrance_center, target_corridor, cw) ==
    LET target_center == CorridorCenter(target_corridor)
        min_x == Min2(entrance_center.x, target_center.x)
        min_y == Min2(entrance_center.y, target_center.y)
        dx == Abs(entrance_center.x - target_center.x)
        dy == Abs(entrance_center.y - target_center.y)
    IN IF dx < dy
       THEN Corridor(min_x, entrance_center.y - Half(cw), dx, cw, dx * cw, "horizontal")
       ELSE Corridor(entrance_center.x - Half(cw), min_y, cw, dy, cw * dy, "vertical")

CreateAccessCorridor(entrance_center, target_corridor, cw) ==
    LET target_center == CorridorCenter(target_corridor)
        min_x == Min2(entrance_center.x, target_center.x)
        min_y == Min2(entrance_center.y, target_center.y)
        dx == Abs(entrance_center.x - target_center.x)
        dy == Abs(entrance_center.y - target_center.y)
    IN IF dx > dy
       THEN Corridor(min_x, entrance_center.y - Half(cw), dx, cw, dx * cw, "horizontal")
       ELSE Corridor(entrance_center.x - Half(cw), min_y, cw, dy, cw * dy, "vertical")

(* _get_entrance_center: an entrance is [kind |-> "center", center |-> p], *)
(* [kind |-> "segment", start |-> p, end |-> q] or [kind |-> "none"] (no   *)
(* geometry: None).  The result is <<>> for None, <<p>> otherwise.         *)
GetEntranceCenter(entrance) ==
    CASE entrance.kind = "center" -> <<entrance.center>>
      [] entrance.kind = "segment" ->
            <<[x |-> Half(entrance.start.x + entrance.end.x),
               y |-> Half(entrance.start.y + entrance.end.y)]>>
      [] OTHER -> <<>>

(* _generate_access_corridors: entrance i (0-based) gets access_corridor_i *)
RECURSIVE GenerateAccessFrom(_, _, _, _)
GenerateAccessFrom(es, i, existing_corridors, cw) ==
    IF i > Len(es) THEN <<>>
    ELSE LET entrance_center == GetEntranceCenter(es[i])
             nearest == IF entrance_center = <<>> THEN 0
                        ELSE FindNearestCorridor(entrance_center[1], existing_corridors)
             rest == GenerateAccessFrom(es, i + 1, existing_corridors, cw)
         IN IF nearest = 0 THEN rest
            ELSE <<Tagged(CreateAccessCorridor(entrance_center[1], existing_corridors[nearest], cw),
                          <<"access_corridor", i - 1>>, "access")>> \o rest

GenerateAccessCorridors(es, existing_corridors, cw) ==
    GenerateAccessFrom(es, 1, existing_corridors, cw)

---------------------------------------------------------------------------
(* _identify_room_clusters as generate_corridor_network calls it: the same *)
(* traversal as the stepped actions above, run to its end in one call.     *)

RECURSIVE ExploreCluster(_, _, _)
RECURSIVE ExploreScan(_, _, _, _)
\* st = [visited, cluster]
ExploreCluster(rs, r, st) ==
    IF rs[r].id \in st.visited THEN st
    ELSE ExploreScan(rs, r, 1, [visited |-> st.visited \cup {rs[r].id},
                                cluster |-> Append(st.cluster, r)])

ExploreScan(rs, r, k, st) ==
    IF k > Len(rs) THEN st
    ELSE IF rs[k].id \in st.visited THEN ExploreScan(rs, r, k + 1, st)
    ELSE IF WithinDistance(rs[r].centroid, rs[k].centroid, max_distance)
    THEN ExploreScan(rs, r, k + 1, ExploreCluster(rs, k, st))
    ELSE ExploreScan(rs, r, k + 1, st)

RECURSIVE ClustersFrom(_, _, _, _)
ClustersFrom(rs, i, seen, cs) ==
    IF i > Len(rs) THEN cs
    ELSE IF rs[i].id \in seen THEN ClustersFrom(rs, i + 1, seen, cs)
    ELSE LET st == ExploreCluster(rs, i, [visited |-> seen, cluster |-> <<>>])
         IN ClustersFrom(rs, i + 1, st.visited,
                         IF st.cluster # <<>> THEN Append(cs, st.cluster) ELSE cs)

IdentifyRoomClusters(rs) == ClustersFrom(rs, 1, {}, <<>>)

---------------------------------------------------------------------------
(* Main corridors, grid fallback, connecting corridors, vertical spine     *)

SetMin(S) == CHOOSE v \in S : \A w \in S : v <= w

SetMax(S) == CHOOSE v \in S : \A w \in S : v >= w

\* _calculate_row_bounds; _get_room_bounds returns an analysed room's 'bounds'.
RowBounds(rs, row) ==
    [minX |-> SetMin({rs[row[k]].bounds.minX : k \in DOMAIN row}),
     maxX |-> SetMax({rs[row[k]].bounds.maxX : k \in DOMAIN row}),
     minY |-> SetMin({rs[row[k]].bounds.minY : k \in DOMAIN row}),
     maxY |-> SetMax({rs[row[k]].bounds.maxY : k \in DOMAIN row})]

RowYs(rs, row) == [k \in DOMAIN row |-> rs[row[k]].centroid.y]

\* _rows_face_each_other: 1.0 <= |mean y1 - mean y2| <= 15.0, the two means
\* sum/len compared after multiplying by both lengths.
RowsFaceEachOther(rs, row1, row2) ==
    LET n1 == Len(row1)
        n2 == Len(row2)
        d == Abs(SumSeq(RowYs(rs, row1)) * n2 - SumSeq(RowYs(rs, row2)) * n1)
    IN 100 * n1 * n2 <= d /\ d <= 1500 * n1 * n2

\* _create_corridor_between_rows: <<>> for None, <<corridor>> otherwise.
CreateCorridorBetweenRowsNoMargin(rs, row1, row2, cw) ==
    LET row1_bounds == RowBounds(rs, row1)
        row2_bounds == RowBounds(rs, row2)
        min_x == Max2(row1_bounds.minX, row2_bounds.minX)
        max_x == Min2(row1_bounds.maxX, row2_bounds.maxX)
        gap == row2_bounds.minY - row1_bounds.maxY
        corridor_y == IF gap <= 0
                      THEN Half(row1_bounds.maxY + row2_bounds.minY) - Half(cw)
                      ELSE row1_bounds.maxY + safety_margin
        corridor_height == IF gap <= 0 THEN cw ELSE Max2(cw, gap)
    IN IF min_x >= max_x THEN <<>>
       ELSE <<Corridor(min_x, corridor_y, max_x - min_x, corridor_height,
                       (max_x - min_x) * corridor_height, "horizontal")>>

CreateCorridorBetweenRows(rs, row1, row2, cw) ==
    LET row1_bounds == RowBounds(rs, row1)
        row2_bounds == RowBounds(rs, row2)
        min_x == Max2(row1_bounds.minX, row2_bounds.minX)
        max_x == Min2(row1_bounds.maxX, row2_bounds.maxX)
        gap == row2_bounds.minY - row1_bounds.maxY
        corridor_y == IF gap <= 0
                      THEN Half(row1_bounds.maxY + row2_bounds.minY) - Half(cw)
                      ELSE row1_bounds.maxY + safety_margin
        corridor_height == IF gap <= 0 THEN cw ELSE Max2(cw, gap - 2 * safety_margin)
    IN IF min_x >= max_x THEN <<>>
       ELSE <<Corridor(min_x, corridor_y, max_x - min_x, corridor_height,
                       (max_x - min_x) * corridor_height, "horizontal")>>

\* _generate_main_corridors: the loop over consecutive rows i, i + 1.
RECURSIVE MainCorridorsFrom(_, _, _, _, _)
MainCorridorsFrom(rs, rows, i, cw, made) ==
    IF i > Len(rows) - 1 THEN made
    ELSE LET corridor == IF RowsFaceEachOther(rs, rows[i], rows[i + 1])
                         THEN CreateCorridorBetweenRows(rs, rows[i], rows[i + 1], cw)
                         ELSE <<>>
         IN MainCorridorsFrom(rs, rows, i + 1, cw,
                IF corridor = <<>> THEN made
                ELSE Append(made, Tagged(corridor[1], <<"main_corridor", Len(made)>>, "main")))

GenerateMainCorridors(rs, rows, cw) == MainCorridorsFrom(rs, rows, 1, cw, <<>>)

\* int(v) of a length in metres: truncation toward zero, in whole metres.
IntMetres(v) == IF v >= 0 THEN v \div 100 ELSE -((-v) \div 100)

\* range(int(min_y), int(max_y) + 1, 10), as levels in centimetres.
RECURSIVE GridLevels(_, _)
GridLevels(y, stop) ==
    IF y >= stop THEN <<>> ELSE <<y * 100>> \o GridLevels(y + 10, stop)

\* The levels with at least 1 room within 5 m.
RECURSIVE KeptLevelsWithOneRoom(_, _)
KeptLevelsWithOneRoom(rs, levels) ==
    IF levels = <<>> THEN <<>>
    ELSE (IF \E k \in DOMAIN rs : Abs(rs[k].centroid.y - Head(levels)) <= 500
          THEN <<Head(levels)>> ELSE <<>>)
             \o KeptLevelsWithOneRoom(rs, Tail(levels))

\* y_positions: the levels with at least 2 rooms within 5 m.
RECURSIVE KeptLevels(_, _)
KeptLevels(rs, levels) ==
    IF levels = <<>> THEN <<>>
    ELSE LET rooms_at_level == {k \in DOMAIN rs : Abs(rs[k].centroid.y - Head(levels)) <= 500}
         IN (IF Cardinality(rooms_at_level) >= 2 THEN <<Head(levels)>> ELSE <<>>)
                \o KeptLevels(rs, Tail(levels))

(* _generate_grid_based_corridors (rs is not empty; the bounds carry no    *)
(* 'width' key, so the width is maxX - minX - 2).                          *)
GenerateGridBasedCorridors(rs, cw, bnds) ==
    LET min_x == SetMin({rs[k].centroid.x : k \in DOMAIN rs})
        min_y == SetMin({rs[k].centroid.y : k \in DOMAIN rs})
        max_y == SetMax({rs[k].centroid.y : k \in DOMAIN rs})
        y_positions == KeptLevels(rs, GridLevels(IntMetres(min_y), IntMetres(max_y) + 1))
        width == bnds.maxX - bnds.minX - 200
        horizontals ==
            [i \in DOMAIN y_positions |->
                Tagged(Corridor(bnds.minX + 100, y_positions[i] + 400, width, cw,
                                width * cw, "horizontal"),
                       <<"grid_horizontal", i - 1>>, "main")]
        spine == Tagged(Corridor(min_x - 300, min_y - 200, cw, max_y - min_y + 400,
                                 cw * (max_y - min_y + 400), "vertical"),
                        <<"grid_vertical_spine">>, "main")
    IN IF horizontals = <<>> THEN <<>> ELSE Append(horizontals, spine)

\* _create_connecting_corridor
CreateConnectingCorridor(corridor1, corridor2, cw) ==
    LET center1 == CorridorCenter(corridor1)
        center2 == CorridorCenter(corridor2)
    IN IF Abs(center1.x - center2.x) < cw * 2
       THEN Corridor(center1.x - Half(cw), Min2(center1.y, center2.y), cw,
                     Abs(center1.y - center2.y), cw * Abs(center1.y - center2.y), "vertical")
       ELSE Corridor(Min2(center1.x, center2.x), center1.y - Half(cw),
                     Abs(center1.x - center2.x), cw, Abs(center1.x - center2.x) * cw,
                     "horizontal")

\* _generate_connecting_corridors
GenerateConnectingCorridors(mains, cw) ==
    [i \in 1..(Len(mains) - 1) |->
        Tagged(CreateConnectingCorridor(mains[i], mains[i + 1], cw),
               <<"connecting_corridor", i - 1>>, "connecting")]

\* min(main_corridors, key=...) / max(...): the first extreme element.
FirstMinBy(cs, key) ==
    CHOOSE k \in DOMAIN cs : \A j \in DOMAIN cs : key[k] < key[j] \/ (key[k] = key[j] /\ k <= j)

FirstMaxBy(cs, key) ==
    CHOOSE k \in DOMAIN cs : \A j \in DOMAIN cs : key[k] > key[j] \/ (key[k] = key[j] /\ k <= j)

\* _generate_vertical_circulation
GenerateVerticalCirculation(mains, cw) ==
    IF mains = <<>> THEN <<>>
    ELSE LET leftmost == mains[FirstMinBy(mains, [k \in DOMAIN mains |-> mains[k].x])]
             rightmost == mains[FirstMaxBy(mains, [k \in DOMAIN mains |->
                                                     mains[k].x + mains[k].width])]
             height == (rightmost.y + rightmost.height) - leftmost.y
             left_spine == Tagged(Corridor(leftmost.x - cw - 100, leftmost.y, cw, height,
                                           cw * height, "vertical"),
                                  <<"vertical_spine_left">>, "vertical_spine")
         IN IF height > 500 THEN <<left_spine>> ELSE <<>>

---------------------------------------------------------------------------
(* Flow annotator: _generate_corridor_arrows.  Positions are rounded down  *)
(* to whole centimetres.                                                    *)

Arrow(x, y, direction, type, size, color) ==
    [x |-> x, y |-> y, direction |-> direction, type |-> type, size |-> size, color |-> color]

\* int(v / d) for lengths v, d > 0 in centimetres: truncation toward zero.
IntQuotient(v, d) == IF v >= 0 THEN v \div d ELSE -((-v) \div d)

\* _generate_arrows_for_corridor: an arrow pair every 4 m, at least 3 pairs.
ArrowsForCorridor(c) ==
    LET center == CorridorCenter(c)
        horizontal == c.direction = "horizontal"
        length == IF horizontal THEN c.width ELSE c.height
        num_arrows == Max2(3, IntQuotient(length, 400))
        at(i) == (length * (2 * i + 1)) \div (2 * num_arrows)
        pair(i) ==
            IF horizontal
            THEN <<Arrow(c.x + at(i), center.y, "right", "circulation", "medium", "green"),
                   Arrow(c.x + at(i), center.y + 30, "left", "circulation", "medium", "green")>>
            ELSE <<Arrow(center.x, c.y + at(i), "up", "circulation", "medium", "green"),
                   Arrow(center.x + 30, c.y + at(i), "down", "circulation", "medium", "green")>>
    IN Flatten([i \in 1..num_arrows |-> pair(i - 1)])

\* _find_corridor_intersection: <<>> for None, <<centre of the overlap>>.
FindCorridorIntersection(c1, c2) ==
    IF /\ c1.x + c1.width > c2.x
       /\ c2.x + c2.width > c1.x
       /\ c1.y + c1.height > c2.y
       /\ c2.y + c2.height > c1.y
    THEN <<[x |-> Half(Max2(c1.x, c2.x) + Min2(c1.x + c1.width, c2.x + c2.width)),
            y |-> Half(Max2(c1.y, c2.y) + Min2(c1.y + c1.height, c2.y + c2.height))]>>
    ELSE <<>>

\* _create_intersection_arrows: the offsets the loop computes for i = 0..3.
CreateIntersectionArrows(p) ==
    <<Arrow(p.x, p.y + 50, "up", "intersection", "small", "green"),
      Arrow(p.x - 50, p.y, "down", "intersection", "small", "green"),
      Arrow(p.x, p.y - 50, "left", "intersection", "small", "green"),
      Arrow(p.x + 50, p.y, "right", "intersection", "small", "green")>>

\* _generate_connection_arrows: the pairs i < j in order.
RECURSIVE ConnectionArrowsFrom(_, _, _)
ConnectionArrowsFrom(cs, i, j) ==
    IF i > Len(cs) THEN <<>>
    ELSE IF j > Len(cs) THEN ConnectionArrowsFrom(cs, i + 1, i + 2)
    ELSE LET intersection == FindCorridorIntersection(cs[i], cs[j])
         IN (IF intersection = <<>> THEN <<>> ELSE CreateIntersectionArrows(intersection[1]))
                \o ConnectionArrowsFrom(cs, i, j + 1)

\* int(distance / 3.0) for distance = sqrt(d2): the largest k with
\* (3 m * k)^2 <= d2.
FlowSteps(d2, reach) ==
    LET ks == {k \in 0..(reach \div 300 + 1) : (300 * k) * (300 * k) <= d2}
    IN SetMax(ks)

\* _create_entrance_flow_path: arrows every 3 m from the entrance to the
\* corridor centre, at least 2.
CreateEntranceFlowPath(entrance_center, target_corridor) ==
    LET target_center == CorridorCenter(target_corridor)
        dx == target_center.x - entrance_center.x
        dy == target_center.y - entrance_center.y
        d2 == dx * dx + dy * dy
        num_arrows == Max2(2, FlowSteps(d2, Abs(dx) + Abs(dy)))
        direction == IF Abs(dx) > Abs(dy)
                     THEN (IF dx > 0 THEN "right" ELSE "left")
                     ELSE (IF dy > 0 THEN "up" ELSE "down")
    IN IF d2 > 0
       THEN [i \in 1..num_arrows |->
                Arrow(entrance_center.x + (dx * (2 * i - 1)) \div (2 * num_arrows),
                      entrance_center.y + (dy * (2 * i - 1)) \div (2 * num_arrows),
                      direction, "entrance_flow", "large", "bright_green")]
       ELSE <<>>

\* _generate_entrance_flow_arrows
RECURSIVE EntranceFlowArrowsFrom(_, _, _)
EntranceFlowArrowsFrom(es, i, cs) ==
    IF i > Len(es) THEN <<>>
    ELSE LET entrance_center == GetEntranceCenter(es[i])
             nearest == IF entrance_center = <<>> THEN 0
                        ELSE FindNearestCorridor(entrance_center[1], cs)
         IN (IF nearest = 0 THEN <<>>
             ELSE CreateEntranceFlowPath(entrance_center[1], cs[nearest]))
                \o EntranceFlowArrowsFrom(es, i + 1, cs)

\* _generate_corridor_arrows
GenerateCorridorArrows(cs, es) ==
    Flatten([k \in DOMAIN cs |-> ArrowsForCorridor(cs[k])])
        \o ConnectionArrowsFrom(cs, 1, 2)
        \o EntranceFlowArrowsFrom(es, 1, cs)

---------------------------------------------------------------------------
(* generate_corridor_network, step by step                                 *)

\* Step 1: room_clusters = self._identify_room_clusters(rooms)
\*         room_rows = self._identify_room_rows(room_clusters)
IdentifyClustersAndRows ==
    /\ pc = "start"
    /\ \A i \in DOMAIN rooms : Keyed(rooms[i].centroid)
    /\ clusters' = IdentifyRoomClusters(rooms)
    /\ room_rows' = IdentifyRoomRows(rooms, clusters', <<>>)
    /\ pc' = "rows"
    /\ UNCHANGED <<rooms, visited, cluster, stack, outerIdx, evals, explored, varsInput,
                   varsPlacement, varsArea, varsNetwork,
                   varsGenerate, varsEntry>>

\* The result of the except branch of generate_corridor_network.
ErrorResult ==
    [corridors |-> <<>>, arrows |-> <<>>,
     statistics |-> [total_corridors |-> 0, total_corridor_area |-> 0],
     metadata |-> [error |-> "raised"]]

\* Step 1 raises: the sort key r['centroid']['y'] of _identify_room_rows on
\* a centroid that is not keyed; except Exception returns the error result.
RaiseInRows ==
    /\ pc = "start"
    /\ \E i \in DOMAIN rooms : ~Keyed(rooms[i].centroid)
    /\ result' = ErrorResult
    /\ pc' = "done"
    /\ UNCHANGED <<varsCluster, room_rows, varsInput, varsPlacement, varsArea,
                   main_corridors, connecting_corridors, access_corridors,
                   vertical_corridors, corridors, corridor_arrows, optimized_corridors,
                   reoptimized, varsGenerate, varsEntry>>

\* Step 2: main_corridors = self._generate_main_corridors(...)
GenerateMain ==
    /\ pc = "rows"
    /\ main_corridors' = GenerateMainCorridors(rooms, room_rows, corridor_width)
    /\ corridors' = corridors \o main_corridors'
    /\ pc' = "main"
    /\ UNCHANGED <<varsCluster, room_rows, varsInput, varsPlacement, varsArea,
                   connecting_corridors, access_corridors,
                   vertical_corridors, corridor_arrows, optimized_corridors, result,
                   reoptimized,
                   varsGenerate, varsEntry>>

\* Step 2.5: if not main_corridors and rooms: the grid fallback replaces
\* main_corridors.
GridFallback ==
    /\ pc = "main"
    /\ IF main_corridors = <<>> /\ rooms # <<>>
       THEN LET grid_corridors == GenerateGridBasedCorridors(rooms, corridor_width, bounds)
            IN /\ corridors' = corridors \o grid_corridors
               /\ main_corridors' = grid_corridors
       ELSE UNCHANGED <<corridors, main_corridors>>
    /\ pc' = "connect"
    /\ UNCHANGED <<varsCluster, room_rows, varsInput, varsPlacement, varsArea,
                   connecting_corridors, access_corridors,
                   vertical_corridors, corridor_arrows, optimized_corridors, result,
                   reoptimized,
                   varsGenerate, varsEntry>>

\* Step 3: connecting corridors
GenerateConnecting ==
    /\ pc = "connect"
    /\ connecting_corridors' = GenerateConnectingCorridors(main_corridors, corridor_width)
    /\ corridors' = corridors \o connecting_corridors'
    /\ pc' = "access"
    /\ UNCHANGED <<varsCluster, room_rows, varsInput, varsPlacement, varsArea,
                   main_corridors, access_corridors,
                   vertical_corridors, corridor_arrows, optimized_corridors, result,
                   reoptimized,
                   varsGenerate, varsEntry>>

\* Step 4: access corridors from the entrances to the corridors so far
GenerateAccess ==
    /\ pc = "access"
    /\ access_corridors' = GenerateAccessCorridors(entrances, corridors, corridor_width)
    /\ corridors' = corridors \o access_corridors'
    /\ pc' = "vertical"
    /\ UNCHANGED <<varsCluster, room_rows, varsInput, varsPlacement, varsArea,
                   main_corridors, connecting_corridors,
                   vertical_corridors, corridor_arrows, optimized_corridors, result,
                   reoptimized,
                   varsGenerate, varsEntry>>

\* Step 5: vertical circulation
GenerateVertical ==
    /\ pc = "vertical"
    /\ vertical_corridors' = GenerateVerticalCirculation(main_corridors, corridor_width)
    /\ corridors' = corridors \o vertical_corridors'
    /\ pc' = "arrows"
    /\ UNCHANGED <<varsCluster, room_rows, varsInput, varsPlacement, varsArea,
                   main_corridors, connecting_corridors,
                   access_corridors, corridor_arrows, optimized_corridors, result,
                   reoptimized,
                   varsGenerate, varsEntry>>

\* Step 6: if generate_arrows and corridors: the arrows of the corridors
GenerateArrows ==
    /\ pc = "arrows"
    /\ corridor_arrows' = IF generate_arrows /\ corridors # <<>>
                          THEN GenerateCorridorArrows(corridors, entrances)
                          ELSE <<>>
    /\ pc' = "optimize"
    /\ UNCHANGED <<varsCluster, room_rows, varsInput, varsPlacement, varsArea,
                   main_corridors, connecting_corridors,
                   access_corridors, vertical_corridors, corridors, optimized_corridors,
                   result, reoptimized,
                   varsGenerate, varsEntry>>

---------------------------------------------------------------------------
(* Network optimizer                                                       *)

\* if area > 2.0: the minimum corridor area, in square centimetres.
min_corridor_area == 20000

\* tolerance = 0.1 of _can_merge_corridors, in centimetres.
merge_tolerance == 10

(* _can_merge_corridors *)
CanMergeCorridors(c1, c2) ==
    IF Abs(c1.y - c2.y) < merge_tolerance /\ Abs(c1.height - c2.height) < merge_tolerance
    THEN \/ Abs(c1.x + c1.width - c2.x) < merge_tolerance
         \/ Abs(c2.x + c2.width - c1.x) < merge_tolerance
    ELSE IF Abs(c1.x - c2.x) < merge_tolerance /\ Abs(c1.width - c2.width) < merge_tolerance
    THEN \/ Abs(c1.y + c1.height - c2.y) < merge_tolerance
         \/ Abs(c2.y + c2.height - c1.y) < merge_tolerance
    ELSE FALSE

(* _merge_corridors *)
MergeCorridorsSummingAreas(c1, c2) ==
    LET min_x == Min2(c1.x, c2.x)
        min_y == Min2(c1.y, c2.y)
        max_x == Max2(c1.x + c1.width, c2.x + c2.width)
        max_y == Max2(c1.y + c1.height, c2.y + c2.height)
    IN [id |-> <<"merged", c1.id, c2.id>>, type |-> c1.type,
        x |-> min_x, y |-> min_y, width |-> max_x - min_x, height |-> max_y - min_y,
        area |-> c1.area + c2.area, direction |-> c1.direction]

MergeCorridors(c1, c2) ==
    LET min_x == Min2(c1.x, c2.x)
        min_y == Min2(c1.y, c2.y)
        max_x == Max2(c1.x + c1.width, c2.x + c2.width)
        max_y == Max2(c1.y + c1.height, c2.y + c2.height)
    IN [id |-> <<"merged", c1.id, c2.id>>, type |-> c1.type,
        x |-> min_x, y |-> min_y, width |-> max_x - min_x, height |-> max_y - min_y,
        area |-> (max_x - min_x) * (max_y - min_y), direction |-> c1.direction]

\* optimized: the corridors with area > 2.0, in order.
RECURSIVE DropSmallCorridors(_)
DropSmallCorridors(cs) ==
    IF cs = <<>> THEN <<>>
    ELSE IF (IF "area" \in DOMAIN Head(cs) THEN Head(cs).area ELSE 0) > min_corridor_area
         THEN <<Head(cs)>> \o DropSmallCorridors(Tail(cs))
         ELSE DropSmallCorridors(Tail(cs))

\* The inner loop over optimized[i+1:]: [current, used] after position j on.
RECURSIVE MergeScanAdjacentOnly(_, _, _, _)
MergeScanAdjacentOnly(optimized, current, j, used) ==
    IF j > Len(optimized) \/ j \in used THEN [current |-> current, used |-> used]
    ELSE IF CanMergeCorridors(current, optimized[j])
    THEN MergeScanAdjacentOnly(optimized, MergeCorridors(current, optimized[j]), j + 1, used \cup {j})
    ELSE [current |-> current, used |-> used]

RECURSIVE MergeScan(_, _, _, _)
MergeScan(optimized, current, j, used) ==
    IF j > Len(optimized) THEN [current |-> current, used |-> used]
    ELSE IF j \in used THEN MergeScan(optimized, current, j + 1, used)
    ELSE IF CanMergeCorridors(current, optimized[j])
    THEN MergeScan(optimized, MergeCorridors(current, optimized[j]), j + 1, used \cup {j})
    ELSE MergeScan(optimized, current, j + 1, used)

\* The outer loop without the positions the inner loop has used.
RECURSIVE MergePassForgettingUsed(_, _, _, _)
MergePassForgettingUsed(optimized, i, used, merged) ==
    IF i > Len(optimized) THEN merged
    ELSE IF i \in used THEN MergePassForgettingUsed(optimized, i + 1, used, merged)
    ELSE LET scan == MergeScan(optimized, optimized[i], i + 1, used \cup {i})
         IN MergePassForgettingUsed(optimized, i + 1, used \cup {i},
                                    Append(merged, scan.current))

\* The outer loop: merged after positions i.. of optimized.
RECURSIVE MergePass(_, _, _, _)
MergePass(optimized, i, used, merged) ==
    IF i > Len(optimized) THEN merged
    ELSE IF i \in used THEN MergePass(optimized, i + 1, used, merged)
    ELSE LET scan == MergeScan(optimized, optimized[i], i + 1, used \cup {i})
         IN MergePass(optimized, i + 1, scan.used, Append(merged, scan.current))

(* _optimize_corridor_network.  Its except branch (return corridors) is     *)
(* not reachable on corridor dictionaries whose fields are numbers.         *)
OptimizeCorridorNetwork(cs) ==
    IF cs = <<>> THEN <<>>
    ELSE MergePass(DropSmallCorridors(cs), 1, {}, <<>>)

\* Step 7: optimized_corridors = self._optimize_corridor_network(corridors)
Optimize ==
    /\ pc = "optimize"
    /\ optimized_corridors' = OptimizeCorridorNetwork(corridors)
    /\ pc' = "return"
    /\ UNCHANGED <<varsCluster, room_rows, varsInput, varsPlacement, varsArea,
                   main_corridors, connecting_corridors,
                   access_corridors, vertical_corridors, corridors, corridor_arrows,
                   result, reoptimized,
                   varsGenerate, varsEntry>>

\* The Optimizer run a second time, on its own output.
OptimizeAgain ==
    /\ pc = "return"
    /\ reoptimized' = OptimizeCorridorNetwork(optimized_corridors)
    /\ pc' = "reoptimized"
    /\ UNCHANGED <<varsCluster, room_rows, varsInput, varsPlacement, varsArea,
                   main_corridors, connecting_corridors,
                   access_corridors, vertical_corridors, corridors, corridor_arrows,
                   optimized_corridors, result,
                   varsGenerate, varsEntry>>

\* The sum of the areas of the main corridors only.
TotalAreaOfMains(cs) ==
    SumSeq([k \in DOMAIN cs |-> IF cs[k].type = "main" THEN cs[k].area ELSE 0])

\* sum(c.get('area', 0) for c in optimized_corridors)
TotalArea(cs) == SumSeq([k \in DOMAIN cs |-> cs[k].area])

\* return {'corridors': ..., 'arrows': ..., 'statistics': ..., 'metadata': ...}
ReturnResult ==
    /\ pc = "return"
    /\ result' =
          [corridors |-> optimized_corridors,
           arrows |-> corridor_arrows,
           statistics |->
              [total_corridors |-> Len(optimized_corridors),
               main_corridors |-> Len(main_corridors),
               connecting_corridors |-> Len(connecting_corridors),
               access_corridors |-> Len(access_corridors),
               vertical_corridors |-> Len(vertical_corridors),
               total_corridor_area |-> TotalArea(optimized_corridors),
               average_width |-> corridor_width],
           metadata |->
              [generation_method |-> "enhanced_circulation_analysis",
               room_clusters |-> Len(clusters),
               room_rows |-> Len(room_rows),
               options |-> [corridor_width |-> corridor_width,
                            generate_arrows |-> generate_arrows]]]
    /\ pc' = "done"
    /\ UNCHANGED <<varsCluster, room_rows, varsInput, varsPlacement, varsArea,
                   main_corridors, connecting_corridors,
                   access_corridors, vertical_corridors, corridors, corridor_arrows,
                   optimized_corridors, reoptimized,
                   varsGenerate, varsEntry>>

\* Bound on the length of the corridor lists handed to the Optimizer.
MaxCorridors == 3

\* Two existing corridors, centred at (30 m, 20 m) and (88 m, 20 m).
TargetCorridors ==
    {Corridor(2000, 1940, 2000, 120, 240000, "horizontal"),
     Corridor(7800, 1940, 2000, 120, 240000, "horizontal")}

\* Entrance centres: on the targets' line, 5 cm off it, on a target's
\* centre, and above and below it.
EntranceCenters ==
    {[x |-> 100, y |-> 2000], [x |-> 5900, y |-> 2000], [x |-> 5900, y |-> 2006],
     [x |-> 3000, y |-> 2000], [x |-> 3000, y |-> 100], [x |-> 3000, y |-> 3900]}

\* Corridors the router's _create_access_corridor makes from them.
CorridorPool ==
    {CreateAccessCorridor(e, t, default_corridor_width) :
        e \in EntranceCenters, t \in TargetCorridors}

\* The ids the router gives are distinct: position i stands for the i-th.
CorridorLists ==
    {[i \in DOMAIN cs |-> Tagged(cs[i], <<"access_corridor", i - 1>>, "access")] :
        cs \in SeqsUpTo(CorridorPool, MaxCorridors)}

InitOpt ==
    /\ pc = "optimize"
    /\ GenerateStart
    /\ EntryStart
    /\ PlacementStart
    /\ AreaStart
    /\ rooms = <<>>
    /\ ClusterStart
    /\ room_rows = <<>>
    /\ DefaultInput
    /\ main_corridors = <<>>
    /\ connecting_corridors = <<>>
    /\ access_corridors = <<>>
    /\ vertical_corridors = <<>>
    /\ corridors \in CorridorLists
    /\ corridor_arrows = <<>>
    /\ optimized_corridors = <<>>
    /\ result = <<>>
    /\ reoptimized = <<>>

NextOpt ==
    \/ Optimize
    \/ OptimizeAgain

SpecOpt == InitOpt /\ [][NextOpt]_vars

---------------------------------------------------------------------------
(* Properties of the network optimizer                                     *)

Optimized == pc \in {"return", "reoptimized", "done"}

IsMerged(c) == c.id # <<>> /\ c.id[1] = "merged"

\* C4: every corridor the Optimizer returns, passed through or merged,
\* has area == width * height and area > 2.0.
C4_OptimizedAreas ==
    Optimized =>
        \A k \in DOMAIN optimized_corridors :
            /\ optimized_corridors[k].area =
                   optimized_corridors[k].width * optimized_corridors[k].height
            /\ optimized_corridors[k].area > min_corridor_area

\* A merge within the 0.1 tolerance (the two corridors 6 cm apart across
\* their axis), next to a corridor passed through, with one dropped.
C4_Witness ==
    /\ Optimized
    /\ Len(corridors) = 3
    /\ \E k \in DOMAIN optimized_corridors :
          IsMerged(optimized_corridors[k]) /\ optimized_corridors[k].height = 126
    /\ \E k \in DOMAIN optimized_corridors : ~IsMerged(optimized_corridors[k])

MergeablePairIn(cs) ==
    \E i, j \in DOMAIN cs : i < j /\ CanMergeCorridors(cs[i], cs[j])

\* C5 as stated: the Optimizer run on its own output returns a list of the
\* same length, len(opt(opt(L))) == len(opt(L)).
C5_OptimizerIdempotentCount ==
    pc = "reoptimized" => Len(reoptimized) = Len(optimized_corridors)

\* C5 amended: a second run never returns more corridors, and returns as
\* many exactly when no two corridors of the first output are mergeable.
C5_SecondPassShrinksIffMergeable ==
    pc = "reoptimized" =>
        /\ Len(reoptimized) <= Len(optimized_corridors)
        /\ (Len(reoptimized) = Len(optimized_corridors)
                <=> ~MergeablePairIn(optimized_corridors))

\* The single pass left a mergeable pair, which the second run merged.
C5_Witness ==
    /\ pc = "reoptimized"
    /\ Len(optimized_corridors) = 2
    /\ Len(reoptimized) = 1


---------------------------------------------------------------------------
(* Analysed floor plans: rectangular rooms on a grid of positions          *)

\* Bound on the number of rooms of an analysed floor plan.
MaxPlanRooms == 6

PlanLevelYs == <<1000, 1900, 2800>>

MainColumnXs == <<1000, 2000, 3000, 4000>>

NetworkColumnXs == <<1000, 2000, 3000>>

\* The room positions, column by column.
PlanSlots(cols) ==
    [k \in 1..(Len(cols) * Len(PlanLevelYs)) |->
        [x |-> cols[((k - 1) \div Len(PlanLevelYs)) + 1],
         y |-> PlanLevelYs[((k - 1) % Len(PlanLevelYs)) + 1]]]

RECURSIVE PickFrom(_, _, _)
PickFrom(slots, S, k) ==
    IF k > Len(slots) THEN <<>>
    ELSE (IF k \in S THEN <<slots[k]>> ELSE <<>>) \o PickFrom(slots, S, k + 1)

\* Width and height of the rooms of a plan, in centimetres.
RoomSizes ==
    {[w |-> 600, h |-> 500], [w |-> 600, h |-> 800], [w |-> 600, h |-> 1000],
     [w |-> 1000, h |-> 500]}

NetworkRoomSizes == {[w |-> 600, h |-> 500], [w |-> 1000, h |-> 1000]}

CorridorWidths == {120, 200}

\* The record analyze_floor_plan makes of room i (0-based i - 1) with its
\* default id, for a rectangle of the given size centred at c.
AnalysedRoom(i, c, size) ==
    [id |-> i, centroid |-> c, area |-> size.w * size.h,
     bounds |-> [minX |-> c.x - Half(size.w), maxX |-> c.x + Half(size.w),
                 minY |-> c.y - Half(size.h), maxY |-> c.y + Half(size.h)]]

PlanRooms(cols, size) ==
    {[i \in DOMAIN cs |-> AnalysedRoom(i, cs[i], size)] :
        cs \in {PickFrom(PlanSlots(cols), S, 1) :
                    S \in {T \in SUBSET (1..(Len(cols) * Len(PlanLevelYs))) :
                              Cardinality(T) <= MaxPlanRooms}}}

---------------------------------------------------------------------------
(* Main corridors: steps 1 and 2 of generate_corridor_network              *)

InitMain ==
    /\ pc = "start"
    /\ GenerateStart
    /\ EntryStart
    /\ PlacementStart
    /\ AreaStart
    /\ \E size \in RoomSizes : rooms \in PlanRooms(MainColumnXs, size)
    /\ visited = {}
    /\ clusters = <<>>
    /\ cluster = <<>>
    /\ stack = <<>>
    /\ outerIdx = 1
    /\ evals = 0
    /\ explored = <<>>
    /\ room_rows = <<>>
    /\ entrances = <<>>
    /\ bounds = DefaultBounds
    /\ corridor_width \in CorridorWidths
    /\ generate_arrows = TRUE
    /\ NetworkStart

NextMain ==
    \/ IdentifyClustersAndRows
    \/ GenerateMain

SpecMain == InitMain /\ [][NextMain]_vars

MainGenerated == pc = "main"

RowPairs == 1..(Len(room_rows) - 1)

\* The length of the intersection of the X-extents of rows i and i + 1.
XOverlap(i) ==
    Min2(RowBounds(rooms, room_rows[i]).maxX, RowBounds(rooms, room_rows[i + 1]).maxX)
        - Max2(RowBounds(rooms, room_rows[i]).minX, RowBounds(rooms, room_rows[i + 1]).minX)

\* g = row2.minY - row1.maxY
YGap(i) == RowBounds(rooms, room_rows[i + 1]).minY - RowBounds(rooms, room_rows[i]).maxY

\* Rows i and i + 1 face each other and their X-extents share an interval.
FacingWithOverlap(i) ==
    /\ RowsFaceEachOther(rooms, room_rows[i], room_rows[i + 1])
    /\ XOverlap(i) > 0

\* The position in main_corridors of the corridor of the pair (i, i + 1).
CorridorOfPair(i) == Cardinality({j \in 1..i : FacingWithOverlap(j)})

(* C9: every pair of consecutive rows that face each other with X-extents  *)
(* sharing an interval of positive length gets exactly one main corridor   *)
(* and no other pair gets one; when the pair's Y-gap g is positive, the    *)
(* corridor's width is the X-overlap and its height is                     *)
(* max(corridor_width, g - 2 * safety_margin), which is 3.0 m for g = 4.0  *)
(* m, corridor_width = 1.2 m and margin 0.5 m.                             *)
C9_MainCorridorBetweenFacingRows ==
    MainGenerated =>
        /\ Len(main_corridors) = Cardinality({i \in RowPairs : FacingWithOverlap(i)})
        /\ \A i \in RowPairs :
              (FacingWithOverlap(i) /\ YGap(i) > 0) =>
                  LET c == main_corridors[CorridorOfPair(i)]
                  IN /\ c.id = <<"main_corridor", CorridorOfPair(i) - 1>>
                     /\ c.width = XOverlap(i)
                     /\ c.x = Max2(RowBounds(rooms, room_rows[i]).minX,
                                   RowBounds(rooms, room_rows[i + 1]).minX)
                     /\ c.height = Max2(corridor_width, YGap(i) - 2 * safety_margin)
                     /\ (YGap(i) = 400 /\ corridor_width = 120 /\ safety_margin = 50
                            => c.height = 300)

\* C9 witness: two facing rows of 3 rooms each with a gap of 4.0 m and
\* corridor_width 1.2 m got one main corridor of height 3.0 m.
C9_Witness ==
    /\ MainGenerated
    /\ corridor_width = 120
    /\ Len(room_rows) = 2
    /\ Len(room_rows[1]) = 3
    /\ Len(room_rows[2]) = 3
    /\ FacingWithOverlap(1)
    /\ YGap(1) = 400
    /\ Len(main_corridors) = 1
    /\ main_corridors[1].height = 300
    /\ main_corridors[1].width = XOverlap(1)

---------------------------------------------------------------------------
(* Access corridors: _generate_access_corridors on given corridors         *)

\* Existing corridors: the two targets and a vertical one centred at
\* (30 m, 40 m).
AccessTargets ==
    TargetCorridors \cup {Corridor(2940, 3000, 120, 2000, 240000, "vertical")}

ExistingCorridorLists ==
    {[i \in DOMAIN cs |-> Tagged(cs[i], <<"main_corridor", i - 1>>, "main")] :
        cs \in SeqsUpTo(AccessTargets, MaxCorridors)}

\* Entrances with an explicit centre, with a segment whose midpoint is
\* (1 m, 20 m), and without geometry.
EntranceChoices ==
    {[kind |-> "center", center |-> p] : p \in EntranceCenters}
        \cup {[kind |-> "segment", start |-> [x |-> 100, y |-> 1000],
               end |-> [x |-> 100, y |-> 3000]],
              [kind |-> "none"]}

MaxEntrances == 2

InitAccess ==
    /\ pc = "access"
    /\ GenerateStart
    /\ EntryStart
    /\ PlacementStart
    /\ AreaStart
    /\ rooms = <<>>
    /\ ClusterStart
    /\ room_rows = <<>>
    /\ entrances \in SeqsUpTo(EntranceChoices, MaxEntrances)
    /\ bounds = DefaultBounds
    /\ corridor_width \in CorridorWidths
    /\ generate_arrows = TRUE
    /\ main_corridors = <<>>
    /\ connecting_corridors = <<>>
    /\ access_corridors = <<>>
    /\ vertical_corridors = <<>>
    /\ corridors \in ExistingCorridorLists
    /\ corridor_arrows = <<>>
    /\ optimized_corridors = <<>>
    /\ result = <<>>
    /\ reoptimized = <<>>

NextAccess == GenerateAccess

SpecAccess == InitAccess /\ [][NextAccess]_vars

AccessGenerated == pc = "vertical"

\* The corridors _generate_access_corridors was given.
ExistingCorridors == SubSeq(corridors, 1, Len(corridors) - Len(access_corridors))

\* Access corridor a runs straight from e to tc along the larger delta.
RunsStraight(a, e, tc) ==
    /\ Abs(e.x - tc.x) > Abs(e.y - tc.y) =>
          /\ a.direction = "horizontal"
          /\ a.x = Min2(e.x, tc.x)
          /\ a.x + a.width = Max2(e.x, tc.x)
          /\ a.y + Half(corridor_width) = e.y
          /\ a.height = corridor_width
    /\ Abs(e.y - tc.y) > Abs(e.x - tc.x) =>
          /\ a.direction = "vertical"
          /\ a.y = Min2(e.y, tc.y)
          /\ a.y + a.height = Max2(e.y, tc.y)
          /\ a.x + Half(corridor_width) = e.x
          /\ a.width = corridor_width

(* C10: every entrance with a resolvable centre, given a non-empty list of *)
(* existing corridors, gets one access corridor; it targets a corridor at  *)
(* the least centre-to-centre distance and runs straight from the entrance *)
(* centre to that corridor's centre along the axis of the larger absolute  *)
(* delta: horizontal from the smaller to the larger x at the entrance's y  *)
(* when |dx| > |dy|, vertical likewise when |dy| > |dx|.                   *)
C10_AccessCorridorToNearest ==
    AccessGenerated =>
        \A i \in DOMAIN entrances :
            (GetEntranceCenter(entrances[i]) # <<>> /\ ExistingCorridors # <<>>) =>
                LET e == GetEntranceCenter(entrances[i])[1]
                    made == {k \in DOMAIN access_corridors :
                                access_corridors[k].id = <<"access_corridor", i - 1>>}
                IN /\ Cardinality(made) = 1
                   /\ \A k \in made :
                        \E t \in DOMAIN ExistingCorridors :
                            /\ \A j \in DOMAIN ExistingCorridors :
                                  Distance2(e, CorridorCenter(ExistingCorridors[t]))
                                      <= Distance2(e, CorridorCenter(ExistingCorridors[j]))
                            /\ RunsStraight(access_corridors[k], e,
                                            CorridorCenter(ExistingCorridors[t]))

\* C10 witness: the entrance at (1 m, 20 m) with the nearest corridor
\* centred at (30 m, 20 m) got a horizontal corridor from x = 1 m to 30 m.
C10_Witness ==
    /\ AccessGenerated
    /\ Len(entrances) = 2
    /\ entrances[2] = [kind |-> "center", center |-> [x |-> 100, y |-> 2000]]
    /\ Len(ExistingCorridors) = 2
    /\ CorridorCenter(ExistingCorridors[1]) = [x |-> 8800, y |-> 2000]
    /\ CorridorCenter(ExistingCorridors[2]) = [x |-> 3000, y |-> 2000]
    /\ \E k \in DOMAIN access_corridors :
          /\ access_corridors[k].id = <<"access_corridor", 1>>
          /\ access_corridors[k].direction = "horizontal"
          /\ access_corridors[k].x = 100
          /\ access_corridors[k].x + access_corridors[k].width = 3000
          /\ access_corridors[k].y + Half(corridor_width) = 2000

---------------------------------------------------------------------------
(* generate_corridor_network from an analysis to its result                *)

NetworkOptions ==
    {[corridor_width |-> 120, generate_arrows |-> TRUE],
     [corridor_width |-> 200, generate_arrows |-> TRUE],
     [corridor_width |-> 120, generate_arrows |-> FALSE]}

NetworkEntranceLists ==
    {<<>>,
     <<[kind |-> "center", center |-> [x |-> 500, y |-> 1450]]>>,
     <<[kind |-> "none"],
       [kind |-> "segment", start |-> [x |-> 2000, y |-> 200], end |-> [x |-> 3000, y |-> 200]]>>}

InitNetwork ==
    /\ pc = "start"
    /\ GenerateStart
    /\ EntryStart
    /\ PlacementStart
    /\ AreaStart
    /\ \E size \in NetworkRoomSizes : rooms \in PlanRooms(NetworkColumnXs, size)
    /\ visited = {}
    /\ clusters = <<>>
    /\ cluster = <<>>
    /\ stack = <<>>
    /\ outerIdx = 1
    /\ evals = 0
    /\ explored = <<>>
    /\ room_rows = <<>>
    /\ entrances \in NetworkEntranceLists
    /\ bounds = DefaultBounds
    /\ \E options \in NetworkOptions :
          /\ corridor_width = options.corridor_width
          /\ generate_arrows = options.generate_arrows
    /\ NetworkStart

NextNetwork ==
    \/ IdentifyClustersAndRows
    \/ GenerateMain
    \/ GridFallback
    \/ GenerateConnecting
    \/ GenerateAccess
    \/ GenerateVertical
    \/ GenerateArrows
    \/ Optimize
    \/ ReturnResult

SpecNetwork == InitNetwork /\ [][NextNetwork]_vars

NetworkReturned == pc = "done"

(* C6: on an analysis with zero rooms generate_corridor_network returns an *)
(* empty corridor list and statistics in which every value is zero.        *)
C6_ZeroRoomsZeroStatistics ==
    (NetworkReturned /\ rooms = <<>>) =>
        /\ result.corridors = <<>>
        /\ \A f \in DOMAIN result.statistics : result.statistics[f] = 0


---------------------------------------------------------------------------
(* Placement engine: _place_ilots_optimally of the three-stage processor.  *)
(* Areas are in square centimetres and multiples of 10, so that 1.3 times  *)
(* an area is the integer area * 13 / 10.                                  *)

\* Bounds on the rooms and on the units handed to the placement.
MaxPlacementRooms == 2

MaxIlots == 3

\* _assess_ilot_suitability: the type is an allowed one and area >= 10 m^2.
AssessIlotSuitability(room_area, room_type) ==
    /\ room_type \in {"office", "workspace", "meeting", "conference", "open_office"}
    /\ room_area >= 100000

\* _analyze_individual_room for a rectangle of w by h at the origin; id 0 is
\* an id the input supplies, i > 0 the default id of the room at position i.
AnalyzeIndividualRoom(id, w, h, type) ==
    [id |-> id, area |-> w * h, type |-> type,
     bounds |-> [minX |-> 0, minY |-> 0, maxX |-> w, maxY |-> h],
     suitability |-> [suitable |-> AssessIlotSuitability(w * h, type)]]

\* Rooms of 100 m^2, 20 m^2 and 9 m^2.
RoomShapes ==
    {[w |-> 1000, h |-> 1000, type |-> "office"],
     [w |-> 500, h |-> 400, type |-> "office"],
     [w |-> 500, h |-> 400, type |-> "storage"],
     [w |-> 300, h |-> 300, type |-> "office"]}

PlacementRoomLists ==
    {rs \in SeqsUpTo({AnalyzeIndividualRoom(id, sh.w, sh.h, sh.type) :
                          id \in 0..MaxPlacementRooms, sh \in RoomShapes},
                     MaxPlacementRooms) :
        \A i \in DOMAIN rs : rs[i].id \in RoomIdChoices(i)}

\* Units of 50 m^2, 20 m^2 and 8 m^2.
IlotShapes ==
    {[area |-> 500000, width |-> 800, height |-> 625],
     [area |-> 200000, width |-> 500, height |-> 400],
     [area |-> 80000, width |-> 400, height |-> 200]}

\* _generate_ilots_by_distribution numbers the units: 'ilot_000', ...
IlotLists ==
    {[i \in DOMAIN us |-> [id |-> i - 1, area |-> us[i].area, width |-> us[i].width,
                           height |-> us[i].height]] :
        us \in SeqsUpTo(IlotShapes, MaxIlots)}

\* required_area = ilot['area'] * 1.3
RequiredArea(ilot) == (ilot.area * 13) \div 10

\* Positions of the rooms with r['suitability']['suitable'], in input order.
RECURSIVE SuitablePositions(_, _)
SuitablePositions(rs, i) ==
    IF i > Len(rs) THEN <<>>
    ELSE (IF rs[i].suitability.suitable THEN <<i>> ELSE <<>>) \o SuitablePositions(rs, i + 1)

\* _calculate_optimal_position: a grid slot after the units already in the
\* room, clipped to the room's bounds less the 0.5 m margin.
CalculateOptimalPosition(ilot, room, existing_ilots) ==
    LET grid_x == room.bounds.minX + 50
        grid_y == room.bounds.minY + 50
        offset_x == Len(existing_ilots) * (ilot.width + 100)
        offset_y == (Len(existing_ilots) \div 2) * (ilot.height + 100)
    IN [x |-> Min2(grid_x + offset_x, room.bounds.maxX - ilot.width - 50),
        y |-> Min2(grid_y + offset_y, room.bounds.maxY - ilot.height - 50)]

\* The first room of suitable_rooms with room for the unit, 0 for None.
BestRoom(ilot) ==
    LET fits == {k \in DOMAIN suitable_rooms :
                    rooms[suitable_rooms[k]].area
                        - room_usage[rooms[suitable_rooms[k]].id].used_area
                            >= RequiredArea(ilot)}
    IN IF fits = {} THEN 0 ELSE suitable_rooms[SetMin(fits)]

\* The filter, the two sorts and the usage table before the loop.
PreparePlacement ==
    /\ pc = "place"
    /\ suitable_rooms' = SortDesc(SuitablePositions(rooms, 1),
                                  [i \in DOMAIN rooms |-> rooms[i].area])
    /\ room_usage' = [id \in {rooms[i].id : i \in Range(suitable_rooms')} |->
                        [used_area |-> 0, ilots |-> <<>>]]
    /\ sorted_ilots' = SortDesc(ilots, [u \in Range(ilots) |-> u.area])
    /\ ilots' = Sorted(ilots, sorted_ilots')
    /\ next_ilot' = 1
    /\ placed_ilots' = <<>>
    /\ pc' = "placing"
    /\ UNCHANGED <<varsCluster, room_rows, varsInput, varsNetwork, varsArea,
                   varsGenerate, varsEntry>>

\* One iteration of the loop over sorted_ilots.
PlaceNextIlot ==
    /\ pc = "placing"
    /\ next_ilot <= Len(sorted_ilots)
    /\ LET ilot == sorted_ilots[next_ilot]
           best_room == BestRoom(ilot)
       IN IF best_room # 0
          THEN LET room_id == rooms[best_room].id
                   position == CalculateOptimalPosition(ilot, rooms[best_room],
                                                        room_usage[room_id].ilots)
                   placed_ilot == [id |-> ilot.id, area |-> ilot.area, width |-> ilot.width,
                                   height |-> ilot.height, x |-> position.x,
                                   y |-> position.y, room_id |-> room_id, placed |-> TRUE]
               IN /\ placed_ilots' = Append(placed_ilots, placed_ilot)
                  /\ room_usage' =
                        [room_usage EXCEPT
                            ![room_id] =
                                [used_area |-> @.used_area + RequiredArea(ilot),
                                 ilots |-> Append(@.ilots, placed_ilot)]]
          ELSE UNCHANGED <<placed_ilots, room_usage>>
    /\ next_ilot' = next_ilot + 1
    /\ UNCHANGED <<pc, varsCluster, room_rows, varsInput, varsNetwork, ilots, suitable_rooms,
                   sorted_ilots, varsArea,
                   varsGenerate, varsEntry>>

\* return placed_ilots
ReturnPlacedIlots ==
    /\ pc = "placing"
    /\ next_ilot > Len(sorted_ilots)
    /\ pc' = "placed"
    /\ UNCHANGED <<varsCluster, room_rows, varsInput, varsNetwork, varsPlacement, varsArea,
                   varsGenerate, varsEntry>>

InitPlacement ==
    /\ pc = "place"
    /\ GenerateStart
    /\ EntryStart
    /\ rooms \in PlacementRoomLists
    /\ ClusterStart
    /\ room_rows = <<>>
    /\ DefaultInput
    /\ NetworkStart
    /\ ilots \in IlotLists
    /\ suitable_rooms = <<>>
    /\ room_usage = <<>>
    /\ sorted_ilots = <<>>
    /\ next_ilot = 1
    /\ placed_ilots = <<>>
    /\ AreaStart

NextPlacement ==
    \/ PreparePlacement
    \/ PlaceNextIlot
    \/ ReturnPlacedIlots

SpecPlacement == InitPlacement /\ [][NextPlacement]_vars

\* The loop is between two steps, or the result has been returned.
PlacementStepDone == pc \in {"placing", "placed"}

\* The units the result assigns to the room: those carrying its id.
AssignedTo(room) ==
    [k \in DOMAIN placed_ilots |->
        IF placed_ilots[k].room_id = room.id THEN placed_ilots[k].area ELSE 0]

(* C7: after every step of the placement loop and in the final result, for *)
(* every room the sum of 1.3 x area over the units assigned to the room    *)
(* does not exceed the room's area.                                        *)
C7_PlacementWithinBudget ==
    PlacementStepDone =>
        \A i \in DOMAIN rooms :
            SumSeq(AssignedTo(rooms[i])) * 13 <= rooms[i].area * 10

---------------------------------------------------------------------------
(* The shoelace routines, in binary floating point.  A float is modelled   *)
(* by an integer rounded to SignificandBits significant bits (to nearest,  *)
(* ties to even), as each product, difference and sum of the routines is   *)
(* rounded to 53.  An area is counted in halves: abs(area) / 2 is exact.   *)

\* Bound on the significand of the model's floats.
SignificandBits == 4

\* Bound on the number of vertices.
MaxVertices == 4

\* The spacing of the floats around v >= 0.
RECURSIVE Spacing(_, _)
Spacing(v, q) == IF v < (2 ^ SignificandBits) * q THEN q ELSE Spacing(v, 2 * q)

RoundMagnitude(v) ==
    LET q == Spacing(v, 1)
        below == (v \div q) * q
        rest == v - below
    IN IF 2 * rest < q THEN below
       ELSE IF 2 * rest > q THEN below + q
       ELSE IF (below \div q) % 2 = 0 THEN below ELSE below + q

\* The float nearest to v.
Float(v) == IF v < 0 THEN -RoundMagnitude(-v) ELSE RoundMagnitude(v)

\* area += x1 * y2 - x2 * y1
Accumulate(acc, p1, p2) == Float(acc + Float(Float(p1.x * p2.y) - Float(p2.x * p1.y)))

\* for i in range(len(polygon)): j = (i + 1) % len(polygon); ...
RECURSIVE ShoelaceFrom(_, _, _)
ShoelaceFrom(pts, i, acc) ==
    IF i > Len(pts) THEN acc
    ELSE ShoelaceFrom(pts, i + 1, Accumulate(acc, pts[i], pts[(i % Len(pts)) + 1]))

\* The loop without the edge from the last vertex back to the first.
RECURSIVE ShoelaceOpenFrom(_, _, _)
ShoelaceOpenFrom(pts, i, acc) ==
    IF i >= Len(pts) THEN acc
    ELSE ShoelaceOpenFrom(pts, i + 1, Accumulate(acc, pts[i], pts[i + 1]))

CalculatePolygonAreaOpen(pts) ==
    IF pts = <<>> \/ Len(pts) < 3 THEN 0 ELSE Abs(ShoelaceOpenFrom(pts, 1, 0))

\* FloorPlanCorridorGenerator._calculate_polygon_area
CalculatePolygonArea(pts) ==
    IF pts = <<>> \/ Len(pts) < 3 THEN 0 ELSE Abs(ShoelaceFrom(pts, 1, 0))

\* ThreeStageFloorPlanProcessor._calculate_polygon_area
StageCalculatePolygonArea(pts) ==
    IF Len(pts) < 3 THEN 0 ELSE Abs(ShoelaceFrom(pts, 1, 0))

\* compute_polygon_area: x_prev, y_prev = points[-1]; for x_curr, y_curr in points
RECURSIVE ShoelacePrevFrom(_, _, _, _)
ShoelacePrevFrom(pts, i, prev, acc) ==
    IF i > Len(pts) THEN acc
    ELSE ShoelacePrevFrom(pts, i + 1, pts[i], Accumulate(acc, prev, pts[i]))

compute_polygon_area(points) ==
    IF Len(points) < 3 THEN 0 ELSE Abs(ShoelacePrevFrom(points, 1, Last(points), 0))

Measure(pts) ==
    [corridor |-> CalculatePolygonArea(pts),
     stage |-> StageCalculatePolygonArea(pts),
     processor |-> compute_polygon_area(pts)]

Vertices ==
    {[x |-> 0, y |-> 0], [x |-> 3, y |-> 0], [x |-> 0, y |-> 3],
     [x |-> 7, y |-> 5], [x |-> 3, y |-> 7], [x |-> 7, y |-> 0]}

InitArea ==
    /\ pc = "measure"
    /\ GenerateStart
    /\ EntryStart
    /\ rooms = <<>>
    /\ ClusterStart
    /\ room_rows = <<>>
    /\ DefaultInput
    /\ NetworkStart
    /\ PlacementStart
    /\ polygon \in SeqsUpTo(Vertices, MaxVertices)
    /\ first_measure = <<>>
    /\ areas = <<>>

\* The three routines called on the vertex list.
CalculateAreas ==
    /\ pc = "measure"
    /\ areas' = Measure(polygon)
    /\ first_measure' = IF first_measure = <<>>
                        THEN <<[polygon |-> polygon, areas |-> areas']>>
                        ELSE first_measure
    /\ pc' = "measured"
    /\ UNCHANGED <<varsCluster, room_rows, varsInput, varsNetwork, varsPlacement, polygon,
                   varsGenerate, varsEntry>>

\* The caller passes the list rotated by one vertex.
RotateVertices ==
    /\ pc = "measured"
    /\ polygon # <<>>
    /\ polygon' = Append(Tail(polygon), Head(polygon))
    /\ pc' = "measure"
    /\ UNCHANGED <<varsCluster, room_rows, varsInput, varsNetwork, varsPlacement,
                   first_measure, areas,
                   varsGenerate, varsEntry>>

\* The caller passes the list reversed.
ReverseVertices ==
    /\ pc = "measured"
    /\ polygon # <<>>
    /\ polygon' = [i \in DOMAIN polygon |-> polygon[Len(polygon) + 1 - i]]
    /\ pc' = "measure"
    /\ UNCHANGED <<varsCluster, room_rows, varsInput, varsNetwork, varsPlacement,
                   first_measure, areas,
                   varsGenerate, varsEntry>>

NextArea ==
    \/ CalculateAreas
    \/ RotateVertices
    \/ ReverseVertices

SpecArea == InitArea /\ [][NextArea]_vars

Measured == pc = "measured"

\* The sum of the magnitudes of the products of the shoelace sum.
RECURSIVE ProductMass(_, _)
ProductMass(pts, i) ==
    IF i > Len(pts) THEN 0
    ELSE Abs(pts[i].x * pts[(i % Len(pts)) + 1].y)
            + Abs(pts[(i % Len(pts)) + 1].x * pts[i].y)
            + ProductMass(pts, i + 1)

\* No product, difference or partial sum of the routines is rounded.
ExactlyComputed(pts) == ProductMass(pts, 1) < 2 ^ SignificandBits

\* a and b differ by no more than the rounding the Len(pts) + 2 operations
\* on each term can accumulate in the two sums: 2 * k * u / (1 - k * u)
\* times the product mass, for k operations and unit roundoff u = 2^-bits.
WithinRounding(a, b, pts) ==
    Abs(a - b) * (2 ^ SignificandBits - (Len(pts) + 2))
        <= 2 * (Len(pts) + 2) * ProductMass(pts, 1)

(* C8 as stated: with at least 3 vertices the three routines return the    *)
(* same area for every rotation and for the reversal of the vertex list;   *)
(* with fewer than 3 vertices they return 0.                               *)
C8_AreaSameUnderRotationAndReversal ==
    Measured =>
        /\ Len(polygon) < 3 =>
              areas = [corridor |-> 0, stage |-> 0, processor |-> 0]
        /\ Len(polygon) >= 3 => areas = first_measure[1].areas

(* C8 amended: with fewer than 3 vertices the three routines return 0;     *)
(* with at least 3, the areas of the rotations and of the reversal are     *)
(* equal when no operation of the sum is rounded, and otherwise equal up   *)
(* to the accumulated rounding of the floating-point sum.                  *)
C8_AreaSameUpToRounding ==
    Measured =>
        /\ Len(polygon) < 3 =>
              areas = [corridor |-> 0, stage |-> 0, processor |-> 0]
        /\ (Len(polygon) >= 3 /\ ExactlyComputed(polygon)) =>
              areas = first_measure[1].areas
        /\ Len(polygon) >= 3 =>
              \A f \in DOMAIN areas :
                  WithinRounding(areas[f], first_measure[1].areas[f], polygon)

\* C8 witness: a triangle of exactly computed area 9/2 measured again after
\* its vertex list was rotated or reversed, with the same three areas.
C8_Witness ==
    /\ Measured
    /\ Len(polygon) = 3
    /\ ExactlyComputed(polygon)
    /\ polygon # first_measure[1].polygon
    /\ areas = [corridor |-> 9, stage |-> 9, processor |-> 9]
    /\ areas = first_measure[1].areas


---------------------------------------------------------------------------
(* Unit generation: _generate_ilots_by_distribution.  A fraction is given  *)
(* in percent, the target area in whole square metres; the areas of the    *)
(* units are in square centimetres and their sides in centimetres, rounded *)
(* down.                                                                   *)

\* Bound on the number of items of the distribution.
MaxCategories == 2

\* size_categories
SizeCategories ==
    [c \in {"1-3", "3-5", "5-10", "10-15"} |->
        CASE c = "1-3" -> [min_area |-> 3, max_area |-> 8, min_cap |-> 1, max_cap |-> 3]
          [] c = "3-5" -> [min_area |-> 8, max_area |-> 15, min_cap |-> 3, max_cap |-> 5]
          [] c = "5-10" -> [min_area |-> 15, max_area |-> 30, min_cap |-> 5, max_cap |-> 10]
          [] c = "10-15" -> [min_area |-> 30, max_area |-> 50, min_cap |-> 10, max_cap |-> 15]]

\* category_area / avg_ilot_size as the fraction <<numerator, denominator>>:
\* (target_area * percent / 100) / ((min_area + max_area) / 2).
BudgetOverAverage(category, percent, target) ==
    <<target * percent * 2,
      100 * (SizeCategories[category].min_area + SizeCategories[category].max_area)>>

\* round(n / d) of Python 3 for n >= 0: to nearest, ties to even.
RoundHalfEven(n, d) ==
    LET q == n \div d
        r == n % d
    IN IF 2 * r < d THEN q
       ELSE IF 2 * r > d THEN q + 1
       ELSE IF q % 2 = 0 THEN q ELSE q + 1

\* The count with round in place of int.
NumIlotsRounded(category, percent, target) ==
    LET ratio == BudgetOverAverage(category, percent, target)
    IN Max2(1, RoundHalfEven(ratio[1], ratio[2]))

\* num_ilots = max(1, int(category_area / avg_ilot_size))
NumIlots(category, percent, target) ==
    LET ratio == BudgetOverAverage(category, percent, target)
    IN Max2(1, ratio[1] \div ratio[2])

\* math.sqrt(v), rounded down to a whole number.
SqrtFloor(v) == SetMax({k \in 0..1000 : k * k <= v})

\* _determine_workspace_type
DetermineWorkspaceType(capacity) ==
    IF capacity <= 1 THEN "individual_desk"
    ELSE IF capacity <= 3 THEN "small_team"
    ELSE IF capacity <= 6 THEN "team_workspace"
    ELSE "collaboration_area"

\* Unit i (from 0) of num_ilots units of a category; area_factor is
\* i / max(1, num_ilots - 1) and aspect_ratio 1.3 + 0.4 * area_factor.
MakeIlot(category, i, num_ilots, ilot_counter) ==
    LET info == SizeCategories[category]
        steps == Max2(1, num_ilots - 1)
        unit_area == info.min_area * 10000
                        + (i * (info.max_area - info.min_area) * 10000) \div steps
        width == SqrtFloor((unit_area \div (10 * steps)) * (13 * steps + 4 * i))
        capacity == info.min_cap + (i * (info.max_cap - info.min_cap)) \div steps
    IN [id |-> ilot_counter, category |-> category, area |-> unit_area, width |-> width,
        height |-> unit_area \div width, capacity |-> capacity,
        type |-> DetermineWorkspaceType(capacity)]

\* The loop over distribution.items(); unknown categories are skipped.
RECURSIVE GenerateIlotsFrom(_, _, _, _)
GenerateIlotsFrom(items, k, target, made) ==
    IF k > Len(items) THEN made
    ELSE IF items[k].category \notin DOMAIN SizeCategories
    THEN GenerateIlotsFrom(items, k + 1, target, made)
    ELSE LET num_ilots == NumIlots(items[k].category, items[k].percent, target)
         IN GenerateIlotsFrom(items, k + 1, target,
                made \o [i \in 1..num_ilots |->
                            MakeIlot(items[k].category, i - 1, num_ilots, Len(made) + i - 1)])

GenerateIlotsByDistribution(items, target) == GenerateIlotsFrom(items, 1, target, <<>>)

CategoryNames == {"1-3", "3-5", "5-10", "10-15", "storage"}

Percents == {0, 5, 30, 100}

TargetAreas == {0, 32, 100}

\* The items of a mapping: no category twice.
Distributions ==
    {d \in SeqsUpTo([category : CategoryNames, percent : Percents], MaxCategories) :
        \A i, j \in DOMAIN d : i # j => d[i].category # d[j].category}

InitGenerate ==
    /\ pc = "generate"
    /\ rooms = <<>>
    /\ ClusterStart
    /\ room_rows = <<>>
    /\ DefaultInput
    /\ NetworkStart
    /\ PlacementStart
    /\ AreaStart
    /\ distribution \in Distributions
    /\ target_area \in TargetAreas
    /\ EntryStart

\* generated_ilots = self._generate_ilots_by_distribution(distribution, target)
GenerateIlots ==
    /\ pc = "generate"
    /\ ilots' = GenerateIlotsByDistribution(distribution, target_area)
    /\ pc' = "generated"
    /\ UNCHANGED <<varsCluster, room_rows, varsInput, varsNetwork, suitable_rooms, room_usage,
                   sorted_ilots, next_ilot, placed_ilots, varsArea, varsGenerate, varsEntry>>

NextGenerate == GenerateIlots

SpecGenerate == InitGenerate /\ [][NextGenerate]_vars

IlotsGenerated == pc = "generated"

UnitsOfCategory(category) == Cardinality({k \in DOMAIN ilots : ilots[k].category = category})

(* C11: for every item of the distribution whose category the engine       *)
(* knows, the number of units generated for it is                          *)
(* max(1, round(fraction x target_area / average_size)).                   *)
C11_UnitCountIsRoundedBudget ==
    IlotsGenerated =>
        \A k \in DOMAIN distribution :
            distribution[k].category \in DOMAIN SizeCategories =>
                UnitsOfCategory(distribution[k].category)
                    = NumIlotsRounded(distribution[k].category, distribution[k].percent,
                                      target_area)


(* C11, as the engine computes it: for every item of the distribution      *)
(* whose category the engine knows, the number of units generated for it   *)
(* is max(1, fraction x target_area / average_size rounded down), and the  *)
(* units of an unknown category are none.                                  *)
C11_UnitCountIsTruncatedBudget ==
    IlotsGenerated =>
        /\ \A k \in DOMAIN distribution :
              distribution[k].category \in DOMAIN SizeCategories =>
                  UnitsOfCategory(distribution[k].category)
                      = Max2(1, (target_area * distribution[k].percent * 2)
                                  \div (100 * (SizeCategories[distribution[k].category].min_area
                                         + SizeCategories[distribution[k].category].max_area)))
        /\ \A k \in DOMAIN ilots : ilots[k].category \in DOMAIN SizeCategories

\* A category whose budget is worth more than one unit and does not divide
\* evenly by the average size.
C11_Witness ==
    /\ IlotsGenerated
    /\ \E k \in DOMAIN distribution :
          /\ distribution[k].category \in DOMAIN SizeCategories
          /\ UnitsOfCategory(distribution[k].category) >= 2
          /\ BudgetOverAverage(distribution[k].category, distribution[k].percent,
                               target_area)[1]
                % BudgetOverAverage(distribution[k].category, distribution[k].percent,
                                    target_area)[2] # 0


---------------------------------------------------------------------------
(* generate_corridors_for_floor_plan: analyze_floor_plan on the raw        *)
(* records of a floor plan, then generate_corridor_network on the          *)
(* analysis.  A raw room is [kind |-> "dict", center, area, bounds] or     *)
(* [kind |-> "none"], a list item that is not a dictionary.                *)

\* Bound on the number of room records of a raw floor plan.
MaxRawRooms == 4

RawColumnXs == <<1000, 2000>>

RawRoomSize == [w |-> 600, h |-> 500]

\* The well-formed record of a rectangle centred at c.
RawRoom(c, size) ==
    [kind |-> "dict", center |-> c, area |-> size.w * size.h,
     bounds |-> [minX |-> c.x - Half(size.w), maxX |-> c.x + Half(size.w),
                 minY |-> c.y - Half(size.h), maxY |-> c.y + Half(size.h)]]

(* A record of the input is a dictionary: a function of its keys, with the *)
(* model's tag 'kind'.  None, {} and [] are the empty function, false in a *)
(* condition.                                                              *)
None == [k \in {} |-> 0]

Truthy(v) == DOMAIN v # {}

\* room.get(key, default)
Get(room, key, default) == IF key \in DOMAIN room THEN room[key] ELSE default

\* isinstance(p, list)
IsList(p) == DOMAIN p = {"0", "1"}

\* Sides of the box of a room without bounds and polygon: width and height
\* default to 5 (corridor generator) and to 10 (three-stage processor).
fallback_size == 500

default_size == 1000

\* p[0] if isinstance(p, list) else p['x'], and the same for y: raises on a
\* vertex that is neither a list nor a dictionary with that key.
VertexX(p) == IF IsList(p) THEN p["0"] ELSE p.x

VertexY(p) == IF IsList(p) THEN p["1"] ELSE p.y

VerticesReadable(vertices) ==
    \A k \in DOMAIN vertices : IsList(vertices[k]) \/ Keyed(vertices[k])

\* _calculate_room_centroid: center, else centroid, else the average of the
\* polygon's vertices, else the room's position; (0, 0) from the except
\* branch.  The polygons of the model have averages that are whole.
CalculateRoomCentroid(room) ==
    IF "center" \in DOMAIN room /\ Truthy(room.center) THEN room.center
    ELSE IF "centroid" \in DOMAIN room /\ Truthy(room.centroid) THEN room.centroid
    ELSE IF "polygon" \in DOMAIN room /\ Truthy(room.polygon)
         THEN IF VerticesReadable(room.polygon)
              THEN [x |-> SumSeq([k \in DOMAIN room.polygon |-> VertexX(room.polygon[k])])
                            \div Len(room.polygon),
                    y |-> SumSeq([k \in DOMAIN room.polygon |-> VertexY(room.polygon[k])])
                            \div Len(room.polygon)]
              ELSE [x |-> 0, y |-> 0]
    ELSE [x |-> Get(room, "x", 0), y |-> Get(room, "y", 0)]

\* _get_room_bounds with a box of 1 x 1 for a room without geometry.
GetRoomBoundsUnitBox(room) ==
    IF "bounds" \in DOMAIN room THEN room.bounds
    ELSE [minX |-> Get(room, "x", 0),
          maxX |-> Get(room, "x", 0) + Get(room, "width", 100),
          minY |-> Get(room, "y", 0),
          maxY |-> Get(room, "y", 0) + Get(room, "height", 100)]

\* _get_room_bounds of the corridor generator: bounds, else the polygon's
\* extent, else the box at the room's position; the box 0..5 from the
\* except branch.
GetRoomBounds(room) ==
    IF "bounds" \in DOMAIN room THEN room.bounds
    ELSE IF "polygon" \in DOMAIN room /\ Truthy(room.polygon)
         THEN IF VerticesReadable(room.polygon)
              THEN [minX |-> SetMin({VertexX(room.polygon[k]) : k \in DOMAIN room.polygon}),
                    maxX |-> SetMax({VertexX(room.polygon[k]) : k \in DOMAIN room.polygon}),
                    minY |-> SetMin({VertexY(room.polygon[k]) : k \in DOMAIN room.polygon}),
                    maxY |-> SetMax({VertexY(room.polygon[k]) : k \in DOMAIN room.polygon})]
              ELSE [minX |-> 0, maxX |-> fallback_size, minY |-> 0, maxY |-> fallback_size]
    ELSE [minX |-> Get(room, "x", 0),
          maxX |-> Get(room, "x", 0) + Get(room, "width", fallback_size),
          minY |-> Get(room, "y", 0),
          maxY |-> Get(room, "y", 0) + Get(room, "height", fallback_size)]

\* The body of the loop of analyze_floor_plan on room i: <<>> when it raises
\* (room.get on an item that is not a dictionary) and the room is skipped.
AnalyzeRoom(i, room) ==
    IF room.kind # "dict" THEN <<>>
    ELSE <<[id |-> i, centroid |-> CalculateRoomCentroid(room), area |-> room.area,
            bounds |-> GetRoomBounds(room)]>>

RECURSIVE AnalyzeRoomsFrom(_, _)
AnalyzeRoomsFrom(raw, i) ==
    IF i > Len(raw) THEN <<>>
    ELSE AnalyzeRoom(i, raw[i]) \o AnalyzeRoomsFrom(raw, i + 1)

\* room_analysis of analyze_floor_plan
AnalyzeRooms(raw) == AnalyzeRoomsFrom(raw, 1)

\* A record the analysis cannot use: a room that is not a dictionary or
\* whose centre is not keyed, an entrance whose centre is not keyed or that
\* is not a dictionary.
MalformedRoom(room) == room.kind # "dict" \/ ~Keyed(room.center)

MalformedEntrance(entrance) ==
    \/ entrance.kind = "invalid"
    \/ (entrance.kind = "center" /\ ~Keyed(entrance.center))

\* One record of a well-formed list replaced by a malformed one, or none.
Corrupted(records, bad) ==
    {records} \cup {[records EXCEPT ![k] = b] : k \in DOMAIN records, b \in bad}

RawRoomLists ==
    UNION {Corrupted([i \in DOMAIN cs |-> RawRoom(cs[i], RawRoomSize)],
                     {[kind |-> "none"]}
                        \cup {[RawRoom(c, RawRoomSize) EXCEPT !.center = PyList(c.x, c.y)] :
                                c \in Range(cs)}) :
            cs \in {PickFrom(PlanSlots(RawColumnXs), S, 1) :
                       S \in {T \in SUBSET (1..(Len(RawColumnXs) * Len(PlanLevelYs))) :
                                 Cardinality(T) <= MaxRawRooms}}}

RawEntranceLists ==
    UNION {Corrupted(es, {[kind |-> "invalid"],
                          [kind |-> "center", center |-> PyList(500, 1450)]}) :
            es \in {<<>>,
                    <<[kind |-> "center", center |-> [x |-> 500, y |-> 1450]]>>,
                    <<[kind |-> "center", center |-> [x |-> 1500, y |-> 200]],
                      [kind |-> "center", center |-> [x |-> 500, y |-> 1450]]>>}}

InitFloorPlan ==
    /\ pc = "analyze"
    /\ rooms = <<>>
    /\ ClusterStart
    /\ room_rows = <<>>
    /\ entrances = <<>>
    /\ bounds = DefaultBounds
    /\ corridor_width = default_corridor_width
    /\ generate_arrows = TRUE
    /\ NetworkStart
    /\ PlacementStart
    /\ AreaStart
    /\ GenerateStart
    /\ floor_plan \in [rooms : RawRoomLists, entrances : RawEntranceLists]
    /\ stdin = <<>>
    /\ sys_stdout = "stdout"
    /\ stdout_written = <<>>
    /\ stderr_written = <<>>
    /\ analyzed_rooms = <<>>
    /\ raised = <<>>

\* analysis = generator.analyze_floor_plan(floor_plan_data)
AnalyzeFloorPlan ==
    /\ pc = "analyze"
    /\ rooms' = AnalyzeRooms(floor_plan.rooms)
    /\ entrances' = floor_plan.entrances
    /\ pc' = "start"
    /\ UNCHANGED <<visited, clusters, cluster, stack, outerIdx, evals, explored, room_rows,
                   bounds, corridor_width, generate_arrows, varsNetwork, varsPlacement,
                   varsArea, varsGenerate, varsEntry>>

NextFloorPlan ==
    \/ AnalyzeFloorPlan
    \/ RaiseInRows
    \/ NextNetwork

SpecFloorPlan == InitFloorPlan /\ [][NextFloorPlan]_vars

\* generate_corridor_network as one function of the analysis: the corridors
\* and arrows it returns.
CorridorNetwork(rs, es, cw, with_arrows, bnds) ==
    IF \E i \in DOMAIN rs : ~Keyed(rs[i].centroid) THEN ErrorResult
    ELSE LET rows == IdentifyRoomRows(rs, IdentifyRoomClusters(rs), <<>>)
             from_rows == GenerateMainCorridors(rs, rows, cw)
             mains == IF from_rows = <<>> /\ rs # <<>>
                      THEN GenerateGridBasedCorridors(rs, cw, bnds) ELSE from_rows
             connecting == GenerateConnectingCorridors(mains, cw)
             access == GenerateAccessCorridors(es, mains \o connecting, cw)
             vertical == GenerateVerticalCirculation(mains, cw)
             all == mains \o connecting \o access \o vertical
         IN [corridors |-> OptimizeCorridorNetwork(all),
             arrows |-> IF with_arrows /\ all # <<>>
                        THEN GenerateCorridorArrows(all, es) ELSE <<>>]

\* A sequence without its item k.
RemoveAt(seq, k) == [i \in 1..(Len(seq) - 1) |-> IF i < k THEN seq[i] ELSE seq[i + 1]]

MalformedRooms == {k \in DOMAIN floor_plan.rooms : MalformedRoom(floor_plan.rooms[k])}

MalformedEntrances ==
    {k \in DOMAIN floor_plan.entrances : MalformedEntrance(floor_plan.entrances[k])}

\* The corridors and arrows of the plan without the record, whatever names
\* the corridors carry.
SameGeometry(cs, ds) ==
    /\ Len(cs) = Len(ds)
    /\ \A k \in DOMAIN cs :
          /\ cs[k].x = ds[k].x /\ cs[k].y = ds[k].y
          /\ cs[k].width = ds[k].width /\ cs[k].height = ds[k].height
          /\ cs[k].type = ds[k].type

FloorPlanReturned == pc = "done" /\ floor_plan # <<>>

(* C12: when exactly one room or entrance record of the floor plan is      *)
(* malformed, generate_corridors_for_floor_plan returns the corridors and  *)
(* the arrows of the plan with that record removed.                        *)
C12_MalformedRecordSkipped ==
    FloorPlanReturned =>
        /\ (MalformedEntrances = {} /\ Cardinality(MalformedRooms) = 1) =>
              LET without == CorridorNetwork(
                                 AnalyzeRooms(RemoveAt(floor_plan.rooms,
                                                       CHOOSE k \in MalformedRooms : TRUE)),
                                 floor_plan.entrances, corridor_width, generate_arrows, bounds)
              IN /\ SameGeometry(result.corridors, without.corridors)
                 /\ result.arrows = without.arrows
        /\ (MalformedRooms = {} /\ Cardinality(MalformedEntrances) = 1) =>
              LET without == CorridorNetwork(
                                 AnalyzeRooms(floor_plan.rooms),
                                 RemoveAt(floor_plan.entrances,
                                          CHOOSE k \in MalformedEntrances : TRUE),
                                 corridor_width, generate_arrows, bounds)
              IN /\ SameGeometry(result.corridors, without.corridors)
                 /\ result.arrows = without.arrows


---------------------------------------------------------------------------
(* process_complete_workflow of the three-stage processor, as far as the   *)
(* end of its first stage, next to generate_corridors_for_floor_plan.      *)

\* _analyze_individual_room on a raw room record that is a dictionary.
\* p[0] if isinstance(p, list) else p.get('x', 0): raises on a vertex that is
\* neither a list nor a dictionary.
IsDict(p) == ~IsList(p) /\ "number" \notin DOMAIN p

StageVertexX(p) == IF IsList(p) THEN p["0"] ELSE Get(p, "x", 0)

StageVertexY(p) == IF IsList(p) THEN p["1"] ELSE Get(p, "y", 0)

StageVerticesReadable(vertices) ==
    \A k \in DOMAIN vertices : IsList(vertices[k]) \/ IsDict(vertices[k])

\* _calculate_centroid of the three-stage processor
CalculateCentroid(vertices) ==
    IF ~Truthy(vertices) THEN [x |-> 0, y |-> 0]
    ELSE [x |-> SumSeq([k \in DOMAIN vertices |-> StageVertexX(vertices[k])]) \div Len(vertices),
          y |-> SumSeq([k \in DOMAIN vertices |-> StageVertexY(vertices[k])]) \div Len(vertices)]

\* centroid = room.get('center') or room.get('centroid')
GivenCentroid(room) ==
    IF Truthy(Get(room, "center", None)) THEN room.center ELSE Get(room, "centroid", None)

\* _get_room_bounds of the three-stage processor
StageGetRoomBounds(room) ==
    IF "bounds" \in DOMAIN room THEN room.bounds
    ELSE IF "polygon" \in DOMAIN room
         THEN [minX |-> SetMin({StageVertexX(room.polygon[k]) : k \in DOMAIN room.polygon}),
               maxX |-> SetMax({StageVertexX(room.polygon[k]) : k \in DOMAIN room.polygon}),
               minY |-> SetMin({StageVertexY(room.polygon[k]) : k \in DOMAIN room.polygon}),
               maxY |-> SetMax({StageVertexY(room.polygon[k]) : k \in DOMAIN room.polygon})]
    ELSE [minX |-> Get(room, "x", 0),
          maxX |-> Get(room, "x", 0) + Get(room, "width", default_size),
          minY |-> Get(room, "y", 0),
          maxY |-> Get(room, "y", 0) + Get(room, "height", default_size)]

(* The exception _analyze_individual_room raises on the record, <<>> when  *)
(* it returns: room.get on an item that is not a dictionary, p.get on a    *)
(* vertex that is not one (when the centroid or the bounds are taken from  *)
(* the polygon), min() of no vertices.  Nothing in the processor catches.  *)
StageRaised(room) ==
    IF room.kind # "dict" THEN <<"AttributeError">>
    ELSE IF /\ "polygon" \in DOMAIN room
            /\ ~StageVerticesReadable(room.polygon)
            /\ (~Truthy(GivenCentroid(room)) \/ "bounds" \notin DOMAIN room)
         THEN <<"AttributeError">>
    ELSE IF "polygon" \in DOMAIN room /\ "bounds" \notin DOMAIN room /\ ~Truthy(room.polygon)
         THEN <<"ValueError">>
    ELSE <<>>

AnalyzeIndividualRoomRecord(room, index) ==
    LET centroid == IF ~Truthy(GivenCentroid(room)) /\ "polygon" \in DOMAIN room
                    THEN CalculateCentroid(room.polygon)
                    ELSE GivenCentroid(room)
    IN [id |-> index, area |-> room.area,
        centroid |-> IF Truthy(centroid) THEN centroid ELSE [x |-> 0, y |-> 0],
        type |-> "office",
        bounds |-> StageGetRoomBounds(room),
        suitability |-> [suitable |-> AssessIlotSuitability(room.area, "office")]]

InitEntryPoints ==
    /\ pc \in {"analyze", "stage1"}
    /\ rooms = <<>>
    /\ ClusterStart
    /\ room_rows = <<>>
    /\ entrances = <<>>
    /\ bounds = DefaultBounds
    /\ corridor_width = default_corridor_width
    /\ generate_arrows = TRUE
    /\ NetworkStart
    /\ PlacementStart
    /\ AreaStart
    /\ GenerateStart
    /\ floor_plan \in [rooms : RawRoomLists, entrances : RawEntranceLists]
    /\ stdin = <<>>
    /\ sys_stdout = "stdout"
    /\ stdout_written = <<>>
    /\ stderr_written = <<>>
    /\ analyzed_rooms = <<>>
    /\ raised = <<>>

\* for i, room in enumerate(rooms): analyzed_rooms.append(...)
AnalyzeNextRoom ==
    /\ pc = "stage1"
    /\ Len(analyzed_rooms) < Len(floor_plan.rooms)
    /\ StageRaised(floor_plan.rooms[Len(analyzed_rooms) + 1]) = <<>>
    /\ analyzed_rooms' =
          Append(analyzed_rooms,
                 AnalyzeIndividualRoomRecord(floor_plan.rooms[Len(analyzed_rooms) + 1],
                                             Len(analyzed_rooms) + 1))
    /\ UNCHANGED <<pc, varsCluster, room_rows, varsInput, varsNetwork, varsPlacement, varsArea,
                   varsGenerate, floor_plan, stdin, sys_stdout, stdout_written,
                   stderr_written, raised>>

\* _analyze_individual_room raises (room.get('id', ...) on an item that is not
\* a dictionary: AttributeError), which no frame of process_complete_workflow
\* catches.
RaiseInStage1 ==
    /\ pc = "stage1"
    /\ Len(analyzed_rooms) < Len(floor_plan.rooms)
    /\ StageRaised(floor_plan.rooms[Len(analyzed_rooms) + 1]) # <<>>
    /\ raised' = StageRaised(floor_plan.rooms[Len(analyzed_rooms) + 1])
    /\ pc' = "raised"
    /\ UNCHANGED <<varsCluster, room_rows, varsInput, varsNetwork, varsPlacement, varsArea,
                   varsGenerate, floor_plan, stdin, sys_stdout, stdout_written,
                   stderr_written, analyzed_rooms>>

\* return stage1_result
Stage1Return ==
    /\ pc = "stage1"
    /\ Len(analyzed_rooms) = Len(floor_plan.rooms)
    /\ rooms' = analyzed_rooms
    /\ entrances' = floor_plan.entrances
    /\ result' =
          [stage |-> 1, rooms |-> analyzed_rooms, entrances |-> floor_plan.entrances,
           bounds |-> bounds,
           metrics |-> [room_area |-> SumSeq([k \in DOMAIN analyzed_rooms |->
                                                  analyzed_rooms[k].area]),
                        room_count |-> Len(analyzed_rooms)]]
    /\ pc' = "stage2"
    /\ UNCHANGED <<visited, clusters, cluster, stack, outerIdx, evals, explored, room_rows,
                   bounds, corridor_width, generate_arrows, main_corridors,
                   connecting_corridors, access_corridors, vertical_corridors, corridors,
                   corridor_arrows, optimized_corridors, reoptimized, varsPlacement, varsArea,
                   varsGenerate, varsEntry>>

NextEntryPoints ==
    \/ NextFloorPlan
    \/ AnalyzeNextRoom
    \/ RaiseInStage1
    \/ Stage1Return

SpecEntryPoints == InitEntryPoints /\ [][NextEntryPoints]_vars

(* C13: no entry point lets an exception out, and what                     *)
(* generate_corridors_for_floor_plan returns has the corridors, arrows,    *)
(* statistics and metadata of a result.                                    *)
C13_EntryPointsNeverRaise ==
    /\ raised = <<>>
    /\ pc = "done" => {"corridors", "arrows", "statistics", "metadata"} \subseteq DOMAIN result


---------------------------------------------------------------------------
(* The three stages that take a list and return a new one, side by side:   *)
(* _identify_room_rows on the clusters, _optimize_corridor_network on the  *)
(* corridors, _place_ilots_optimally on the units and the rooms.           *)

InitStages == InitCluster \/ InitOpt \/ InitPlacement

NextStages ==
    \/ NextCluster
    \/ NextOpt
    \/ NextPlacement

SpecStages == InitStages /\ [][NextStages]_vars

(* C14: no stage changes the list it is given: across _identify_room_rows  *)
(* the clusters and the rooms, across _optimize_corridor_network the       *)
(* corridors, across every step of _place_ilots_optimally the units and    *)
(* the rooms keep their elements, their order and their field values.      *)
C14_StagesLeaveInputs ==
    [][/\ IdentifyRows => (clusters' = clusters /\ rooms' = rooms)
       /\ (Optimize \/ OptimizeAgain) => corridors' = corridors
       /\ OptimizeAgain => optimized_corridors' = optimized_corridors
       /\ NextPlacement => (ilots' = ilots /\ rooms' = rooms)]_vars

\* A stage has returned on a list its sort reorders: a cluster that is not
\* in ascending y order, or units that are not in descending area order.
C14_Witness ==
    \/ /\ pc = "rows"
       /\ \E k \in DOMAIN clusters :
             /\ Len(clusters[k]) >= 2
             /\ clusters[k] # SortAsc(clusters[k], CentroidY(rooms))
       /\ room_rows # <<>>
    \/ /\ pc = "placed"
       /\ ilots # sorted_ilots
       /\ placed_ilots # <<>>


---------------------------------------------------------------------------
(* Flow annotator against the optimizer's output                           *)

\* The arrow lies within the rectangle of the corridor.
LiesAlong(arrow, corridor) ==
    /\ corridor.x <= arrow.x /\ arrow.x <= corridor.x + corridor.width
    /\ corridor.y <= arrow.y /\ arrow.y <= corridor.y + corridor.height

(* C15: the arrows of the result are those derived from the corridors the  *)
(* result returns, the Optimizer's output, and every 'circulation' arrow   *)
(* lies along a returned corridor.                                         *)
C15_ArrowsOfReturnedCorridors ==
    (NetworkReturned /\ generate_arrows /\ DOMAIN result = DOMAIN ErrorResult
        /\ "error" \notin DOMAIN result.metadata) =>
        /\ result.arrows = IF result.corridors # <<>>
                           THEN GenerateCorridorArrows(result.corridors, entrances)
                           ELSE <<>>
        /\ \A a \in DOMAIN result.arrows :
              result.arrows[a].type = "circulation" =>
                  \E k \in DOMAIN result.corridors :
                      LiesAlong(result.arrows[a], result.corridors[k])


---------------------------------------------------------------------------
(* main: the command line entry point.  What sys.stdin.read() returns is   *)
(* [kind |-> "empty"] (nothing), "blank" (white space only),               *)
(* "invalid_json", "not_object" (JSON that is not an object),              *)
(* "no_floor_plan" (an object without 'floor_plan', or with null) or       *)
(* [kind |-> "valid", floor_plan |-> plan].  A write is                    *)
(* [kind |-> "json", keys |-> K] for a JSON object with the keys K and      *)
(* [kind |-> "print"] for the diagnostics of a call.                       *)

StdinContents ==
    {[kind |-> k] : k \in {"empty", "blank", "invalid_json", "not_object", "no_floor_plan"}}
        \cup {[kind |-> "valid", floor_plan |-> plan] :
                plan \in [rooms : RawRoomLists, entrances : RawEntranceLists]}

InitCli ==
    /\ pc = "read"
    /\ rooms = <<>>
    /\ ClusterStart
    /\ room_rows = <<>>
    /\ entrances = <<>>
    /\ bounds = DefaultBounds
    /\ corridor_width = default_corridor_width
    /\ generate_arrows = TRUE
    /\ NetworkStart
    /\ PlacementStart
    /\ AreaStart
    /\ GenerateStart
    /\ floor_plan = <<>>
    /\ \E content \in StdinContents : stdin = <<content>>
    /\ sys_stdout = "stdout"
    /\ stdout_written = <<>>
    /\ stderr_written = <<>>
    /\ analyzed_rooms = <<>>
    /\ raised = <<>>

\* The stream a write to sys.stdout reaches.
WriteToSysStdout(document) ==
    IF sys_stdout = "stdout"
    THEN /\ stdout_written' = Append(stdout_written, document)
         /\ UNCHANGED stderr_written
    ELSE /\ stderr_written' = Append(stderr_written, document)
         /\ UNCHANGED stdout_written

\* raw_input = sys.stdin.read() ... floor_plan_data = input_data.get(...):
\* ValueError on no input and on a missing floor plan, json.JSONDecodeError
\* on invalid JSON, AttributeError on JSON that is not an object.
MainParse ==
    /\ pc = "read"
    /\ IF stdin[1].kind = "valid"
       THEN /\ floor_plan' = stdin[1].floor_plan
            /\ pc' = "redirect"
       ELSE /\ UNCHANGED floor_plan
            /\ pc' = "except"
    /\ UNCHANGED <<varsCluster, room_rows, varsInput, varsNetwork, varsPlacement, varsArea,
                   varsGenerate, stdin, sys_stdout, stdout_written, stderr_written,
                   analyzed_rooms, raised>>

\* original_stdout = sys.stdout; try: sys.stdout = sys.stderr, and the call
\* of generate_corridors_for_floor_plan begins.
MainRedirect ==
    /\ pc = "redirect"
    /\ sys_stdout' = "stderr"
    /\ pc' = "analyze"
    /\ UNCHANGED <<varsCluster, room_rows, varsInput, varsNetwork, varsPlacement, varsArea,
                   varsGenerate, floor_plan, stdin, stdout_written, stderr_written,
                   analyzed_rooms, raised>>

\* What stays bound to sys.stdout when the finally clause is skipped.
LeftRedirected(original_stdout) == "stderr"

\* finally: sys.stdout = original_stdout
RestoreStdout(original_stdout) == original_stdout

\* The call has returned: its print() calls went to the stream sys.stdout
\* was bound to, and the finally clause restores sys.stdout.
MainRestore ==
    /\ pc = "done"
    /\ stdin # <<>>
    /\ WriteToSysStdout([kind |-> "print"])
    /\ sys_stdout' = RestoreStdout("stdout")
    /\ pc' = "write"
    /\ UNCHANGED <<varsCluster, room_rows, varsInput, varsNetwork, varsPlacement, varsArea,
                   varsGenerate, floor_plan, stdin, analyzed_rooms, raised>>

\* sys.stdout.write(json.dumps(result) + '\n')
MainWriteResult ==
    /\ pc = "write"
    /\ WriteToSysStdout([kind |-> "json", keys |-> DOMAIN result])
    /\ pc' = "exit"
    /\ UNCHANGED <<varsCluster, room_rows, varsInput, varsNetwork, varsPlacement, varsArea,
                   varsGenerate, floor_plan, stdin, sys_stdout, analyzed_rooms, raised>>

\* except Exception as exc: sys.stdout.write(json.dumps(error_result) + '\n')
MainWriteError ==
    /\ pc = "except"
    /\ WriteToSysStdout([kind |-> "json",
                         keys |-> {"success", "corridors", "arrows", "statistics",
                                   "metadata", "error"}])
    /\ pc' = "exit"
    /\ UNCHANGED <<varsCluster, room_rows, varsInput, varsNetwork, varsPlacement, varsArea,
                   varsGenerate, floor_plan, stdin, sys_stdout, analyzed_rooms, raised>>

NextCli ==
    \/ MainParse
    \/ MainRedirect
    \/ NextFloorPlan
    \/ MainRestore
    \/ MainWriteResult
    \/ MainWriteError

SpecCli == InitCli /\ [][NextCli]_vars

MainExited == pc = "exit"

(* C16: whatever the standard input holds, main writes exactly one JSON    *)
(* document to the real standard output and nothing else; the diagnostics  *)
(* go to standard error only; sys.stdout is bound to the real standard     *)
(* output again before the document is written, on success and on failure. *)
C16_OneDocumentOnStdout ==
    /\ \A k \in DOMAIN stdout_written : stdout_written[k].kind = "json"
    /\ \A k \in DOMAIN stderr_written : stderr_written[k].kind = "print"
    /\ pc \in {"write", "except", "exit"} => sys_stdout = "stdout"
    /\ pc \in {"read", "redirect", "write", "except"} => stdout_written = <<>>
    /\ MainExited => Len(stdout_written) = 1

\* main has exited after a redirected call that printed diagnostics.
C16_Witness ==
    /\ MainExited
    /\ stdin[1].kind = "valid"
    /\ stderr_written # <<>>
    /\ result.corridors # <<>>


---------------------------------------------------------------------------
(* The merges of one Optimizer run, on corridors 2 m wide                  *)

WideCorridorWidth == 200

\* An existing corridor centred at (30 m, 20 m).
MergeTarget == Corridor(2000, 1900, 2000, 200, 400000, "horizontal")

\* Entrances left and right of the target's centre, one metre above its
\* line, and entrances one metre right of it, above and below.
MergeEntranceCenters ==
    {[x |-> 2000, y |-> 2100], [x |-> 4000, y |-> 2100], [x |-> 3100, y |-> 2200],
     [x |-> 3100, y |-> 3000], [x |-> 3100, y |-> 1000]}

\* The access corridors the router makes from them.
MergePool ==
    {CreateAccessCorridor(e, MergeTarget, WideCorridorWidth) : e \in MergeEntranceCenters}

InitMerge ==
    /\ pc = "optimize"
    /\ GenerateStart
    /\ EntryStart
    /\ PlacementStart
    /\ AreaStart
    /\ rooms = <<>>
    /\ ClusterStart
    /\ room_rows = <<>>
    /\ entrances = <<>>
    /\ bounds = DefaultBounds
    /\ corridor_width = WideCorridorWidth
    /\ generate_arrows = TRUE
    /\ main_corridors = <<>>
    /\ connecting_corridors = <<>>
    /\ access_corridors = <<>>
    /\ vertical_corridors = <<>>
    /\ corridors \in {[i \in DOMAIN cs |-> Tagged(cs[i], <<"access_corridor", i - 1>>, "access")] :
                        cs \in SeqsUpTo(MergePool, MaxCorridors)}
    /\ corridor_arrows = <<>>
    /\ optimized_corridors = <<>>
    /\ result = <<>>
    /\ reoptimized = <<>>

SpecMerge == InitMerge /\ [][NextOpt]_vars

\* The merges of the inner loop, in order: what current was, the corridor
\* merged into it, and the result.
RECURSIVE ScanMerges(_, _, _, _)
ScanMerges(optimized, current, j, used) ==
    IF j > Len(optimized) THEN <<>>
    ELSE IF j \in used THEN ScanMerges(optimized, current, j + 1, used)
    ELSE IF CanMergeCorridors(current, optimized[j])
    THEN <<[current |-> current, other |-> optimized[j],
            merged |-> MergeCorridors(current, optimized[j])]>>
            \o ScanMerges(optimized, MergeCorridors(current, optimized[j]), j + 1,
                          used \cup {j})
    ELSE ScanMerges(optimized, current, j + 1, used)

RECURSIVE PassMerges(_, _, _)
PassMerges(optimized, i, used) ==
    IF i > Len(optimized) THEN <<>>
    ELSE IF i \in used THEN PassMerges(optimized, i + 1, used)
    ELSE ScanMerges(optimized, optimized[i], i + 1, used \cup {i})
            \o PassMerges(optimized, i + 1,
                          MergeScan(optimized, optimized[i], i + 1, used \cup {i}).used)

\* The merges _optimize_corridor_network makes on a corridor list.
MergesOf(cs) == PassMerges(DropSmallCorridors(cs), 1, {})

\* Cross-axis position and size within the tolerance, and end to end.
AlignedAndTouching(c1, c2, axis) ==
    IF axis = "horizontal"
    THEN /\ Abs(c1.y - c2.y) < merge_tolerance
         /\ Abs(c1.height - c2.height) < merge_tolerance
         /\ \/ Abs(c1.x + c1.width - c2.x) < merge_tolerance
            \/ Abs(c2.x + c2.width - c1.x) < merge_tolerance
    ELSE /\ Abs(c1.x - c2.x) < merge_tolerance
         /\ Abs(c1.width - c2.width) < merge_tolerance
         /\ \/ Abs(c1.y + c1.height - c2.y) < merge_tolerance
            \/ Abs(c2.y + c2.height - c1.y) < merge_tolerance

IsBoundingUnion(m, c1, c2) ==
    /\ m.x = Min2(c1.x, c2.x)
    /\ m.y = Min2(c1.y, c2.y)
    /\ m.x + m.width = Max2(c1.x + c1.width, c2.x + c2.width)
    /\ m.y + m.height = Max2(c1.y + c1.height, c2.y + c2.height)

OptimizerReturned == pc = "return"

(* C17: every merge of an Optimizer run joins two corridors of the same    *)
(* direction, both horizontal or both vertical, whose cross-axis position  *)
(* and size match within 0.1 and which touch end to end within 0.1 along   *)
(* that axis, and puts their bounding rectangle in their place.            *)
C17_MergesOnlyAlignedSameAxis ==
    OptimizerReturned =>
        \A k \in DOMAIN MergesOf(corridors) :
            LET e == MergesOf(corridors)[k]
            IN /\ e.current.direction = e.other.direction
               /\ AlignedAndTouching(e.current, e.other, e.current.direction)
               /\ IsBoundingUnion(e.merged, e.current, e.other)


---------------------------------------------------------------------------
(* Vertical spine against the main corridors                               *)

\* Room positions 8 m apart in a row, the rows 12 m apart: rooms 5 m deep
\* leave gaps of 7 m between the rows.
SpineSlots ==
    <<[x |-> 1000, y |-> 1000], [x |-> 1800, y |-> 1000],
      [x |-> 1000, y |-> 2200], [x |-> 1800, y |-> 2200],
      [x |-> 1000, y |-> 3400], [x |-> 1800, y |-> 3400]>>

SpineRoomSize == [w |-> 600, h |-> 500]

SpinePlanRooms ==
    {[i \in DOMAIN cs |-> AnalysedRoom(i, cs[i], SpineRoomSize)] :
        cs \in {PickFrom(SpineSlots, S, 1) :
                    S \in {T \in SUBSET (DOMAIN SpineSlots) : Cardinality(T) <= MaxPlanRooms}}}

InitSpine ==
    /\ pc = "start"
    /\ GenerateStart
    /\ EntryStart
    /\ PlacementStart
    /\ AreaStart
    /\ rooms \in SpinePlanRooms
    /\ ClusterStart
    /\ room_rows = <<>>
    /\ entrances \in NetworkEntranceLists
    /\ bounds = DefaultBounds
    /\ \E options \in NetworkOptions :
          /\ corridor_width = options.corridor_width
          /\ generate_arrows = options.generate_arrows
    /\ NetworkStart

SpecSpine == InitSpine /\ [][NextNetwork]_vars

VerticalGenerated ==
    pc \in {"arrows", "optimize", "return", "done"} /\ result # ErrorResult

MainsMinX == SetMin({main_corridors[k].x : k \in DOMAIN main_corridors})

MainsMinY == SetMin({main_corridors[k].y : k \in DOMAIN main_corridors})

MainsMaxY ==
    SetMax({main_corridors[k].y + main_corridors[k].height : k \in DOMAIN main_corridors})

(* C18: without main corridors there is no vertical spine; a spine that is *)
(* emitted is higher than 5 m, lies left of the extreme-left main corridor *)
(* and spans the vertical extent of all main corridors, from their least y *)
(* to their greatest y + height.                                           *)
C18_SpineSpansAllMainCorridors ==
    VerticalGenerated =>
        /\ main_corridors = <<>> => vertical_corridors = <<>>
        /\ \A k \in DOMAIN vertical_corridors :
              /\ vertical_corridors[k].height > 500
              /\ vertical_corridors[k].x + vertical_corridors[k].width <= MainsMinX
              /\ vertical_corridors[k].y = MainsMinY
              /\ vertical_corridors[k].y + vertical_corridors[k].height = MainsMaxY


---------------------------------------------------------------------------
(* Where _calculate_optimal_position puts the units                        *)

\* Rooms of 5 m by 4 m and of 10 m by 10 m, both suitable.
FitRoomShapes == {[w |-> 500, h |-> 400], [w |-> 1000, h |-> 1000]}

\* Rooms with the default ids: the id of the room at position i is i.
FitRoomLists ==
    {[i \in DOMAIN shapes |-> AnalyzeIndividualRoom(i, shapes[i].w, shapes[i].h, "office")] :
        shapes \in SeqsUpTo(FitRoomShapes, MaxPlacementRooms)}

\* Units of 15 m^2 (5 m by 3 m), 50 m^2 and 20 m^2.
FitIlotShapes ==
    {[area |-> 150000, width |-> 500, height |-> 300],
     [area |-> 500000, width |-> 800, height |-> 625],
     [area |-> 200000, width |-> 500, height |-> 400]}

FitIlotLists ==
    {[i \in DOMAIN us |-> [id |-> i - 1, area |-> us[i].area, width |-> us[i].width,
                           height |-> us[i].height]] :
        us \in SeqsUpTo(FitIlotShapes, MaxIlots)}

InitFit ==
    /\ pc = "place"
    /\ GenerateStart
    /\ EntryStart
    /\ rooms \in FitRoomLists
    /\ ClusterStart
    /\ room_rows = <<>>
    /\ DefaultInput
    /\ NetworkStart
    /\ ilots \in FitIlotLists
    /\ suitable_rooms = <<>>
    /\ room_usage = <<>>
    /\ sorted_ilots = <<>>
    /\ next_ilot = 1
    /\ placed_ilots = <<>>
    /\ AreaStart

SpecFit == InitFit /\ [][NextPlacement]_vars

\* The room a placed unit was assigned to; the ids of SpecFit are distinct.
AssignedRoom(unit) == rooms[CHOOSE i \in DOMAIN rooms : rooms[i].id = unit.room_id]

(* C19: every placed unit lies inside the bounding box of its assigned     *)
(* room: minX <= x, x + width <= maxX, minY <= y and y + height <= maxY.   *)
C19_UnitsInsideRoomBounds ==
    PlacementStepDone =>
        \A k \in DOMAIN placed_ilots :
            LET unit == placed_ilots[k]
                box == AssignedRoom(unit).bounds
            IN /\ box.minX <= unit.x
               /\ unit.x + unit.width <= box.maxX
               /\ box.minY <= unit.y
               /\ unit.y + unit.height <= box.maxY

\* The rectangles of two units share interior points.
Overlap(a, b) ==
    /\ a.x < b.x + b.width
    /\ b.x < a.x + a.width
    /\ a.y < b.y + b.height
    /\ b.y < a.y + a.height

(* C20: after any sequence of placements no two units assigned to the same *)
(* room have overlapping rectangles.                                       *)
C20_UnitsOfARoomDisjoint ==
    PlacementStepDone =>
        \A j, k \in DOMAIN placed_ilots :
            (j # k /\ placed_ilots[j].room_id = placed_ilots[k].room_id) =>
                ~Overlap(placed_ilots[j], placed_ilots[k])

---------------------------------------------------------------------------
(* The order of the placement loop: which room each unit goes to.          *)

\* The placed units processed before position k of sorted_ilots.
PlacedBefore(k) ==
    SelectSeq(placed_ilots, LAMBDA p : \E j \in 1..(k - 1) : sorted_ilots[j].id = p.id)

\* What the units placed before position k have reserved in the room.
ReservedBefore(room, k) ==
    SumSeq([n \in DOMAIN PlacedBefore(k) |->
               IF PlacedBefore(k)[n].room_id = room.id
               THEN RequiredArea(PlacedBefore(k)[n]) ELSE 0])

\* Room i comes before room j in the order of descending area (a stable sort).
ScannedBefore(i, j) ==
    \/ rooms[i].area > rooms[j].area
    \/ rooms[i].area = rooms[j].area /\ i < j

\* The suitable rooms with budget for the unit at position k when it is processed.
RoomsWithBudget(k) ==
    {i \in DOMAIN rooms :
        /\ rooms[i].suitability.suitable
        /\ rooms[i].area - ReservedBefore(rooms[i], k) >= RequiredArea(sorted_ilots[k])}

(* C21: units are processed in descending order of area; each goes to the  *)
(* first room, among the suitable rooms in descending order of area, whose *)
(* area less the area already reserved in it is at least 1.3 x the unit's  *)
(* area; a unit is absent from the output exactly when no suitable room    *)
(* had that budget; no unit is in an unsuitable room or placed twice.      *)
C21_FirstFitInDescendingOrder ==
    PlacementStepDone =>
        \A k \in 1..(next_ilot - 1) :
            LET ilot == sorted_ilots[k]
                placed == {n \in DOMAIN placed_ilots : placed_ilots[n].id = ilot.id}
            IN /\ \A j \in 1..(k - 1) : sorted_ilots[j].area >= ilot.area
               /\ Cardinality(placed) <= 1
               /\ (placed = {}) <=> (RoomsWithBudget(k) = {})
               /\ \A n \in placed :
                    /\ \E i \in RoomsWithBudget(k) :
                          /\ placed_ilots[n].room_id = rooms[i].id
                          /\ \A j \in RoomsWithBudget(k) : j = i \/ ScannedBefore(i, j)
                    /\ \A i \in DOMAIN rooms :
                          rooms[i].id = placed_ilots[n].room_id =>
                              rooms[i].suitability.suitable

---------------------------------------------------------------------------
(* Main corridors and the gap between the rows                             *)

(* C22: when the Y-extents of two facing rows do not overlap (gap > 0),    *)
(* the main corridor between them starts one safety margin above the lower *)
(* row's maxY and its extent [y, y + height] lies within                   *)
(* [row1.maxY, row2.minY].                                                 *)
C22_MainCorridorWithinGap ==
    MainGenerated =>
        \A i \in RowPairs :
            (FacingWithOverlap(i) /\ YGap(i) > 0) =>
                LET c == main_corridors[CorridorOfPair(i)]
                    row1 == RowBounds(rooms, room_rows[i])
                    row2 == RowBounds(rooms, room_rows[i + 1])
                IN /\ c.y = row1.maxY + safety_margin
                   /\ row1.maxY <= c.y
                   /\ c.y + c.height <= row2.minY

---------------------------------------------------------------------------
(* The two analyzers on records with and without each key: the loops of    *)
(* analyze_floor_plan and of process_stage1_empty_plan.                    *)

\* Bound on the number of room records of a plan.
MaxRecords == 2

\* The key with one of the values, or no such key.
Optional(key, values) == {None} \cup {key :> v : v \in values}

\* A rectangle of 6 x 4 m whose vertices are dictionaries or lists, and one
\* with a vertex that is a number.
RecordPolygons ==
    {<<>>,
     <<[x |-> 0, y |-> 0], [x |-> 600, y |-> 0], [x |-> 600, y |-> 400], [x |-> 0, y |-> 400]>>,
     <<PyList(0, 0), PyList(600, 0), PyList(600, 400), PyList(0, 400)>>,
     <<[x |-> 0, y |-> 0], [number |-> 600], [x |-> 600, y |-> 400], [x |-> 0, y |-> 400]>>}

RoomRecords ==
    {[kind |-> "dict", area |-> 300000] @@ c @@ d @@ p @@ b @@ q :
        c \in Optional("center", {None, [x |-> 1000, y |-> 1000]}),
        d \in Optional("centroid", {None, [x |-> 2000, y |-> 1900]}),
        p \in Optional("polygon", RecordPolygons),
        b \in Optional("bounds", {[minX |-> 700, maxX |-> 1300, minY |-> 750, maxY |-> 1250]}),
        q \in {None, [x |-> 700, y |-> 900], [x |-> 700, y |-> 900, width |-> 600, height |-> 500]}}

\* One record of any shape, followed by well-formed ones.
RecordLists ==
    {<<r>> \o [k \in 1..n |-> RawRoom([x |-> 2000, y |-> 1900], RawRoomSize)] :
        r \in RoomRecords, n \in 0..(MaxRecords - 1)}

InitResolve ==
    /\ pc \in {"analyze", "stage1"}
    /\ rooms = <<>>
    /\ ClusterStart
    /\ room_rows = <<>>
    /\ DefaultInput
    /\ NetworkStart
    /\ PlacementStart
    /\ AreaStart
    /\ GenerateStart
    /\ floor_plan \in [rooms : RecordLists, entrances : {<<>>}]
    /\ stdin = <<>>
    /\ sys_stdout = "stdout"
    /\ stdout_written = <<>>
    /\ stderr_written = <<>>
    /\ analyzed_rooms = <<>>
    /\ raised = <<>>

NextResolve ==
    \/ AnalyzeFloorPlan
    \/ AnalyzeNextRoom
    \/ RaiseInStage1
    \/ Stage1Return

SpecResolve == InitResolve /\ [][NextResolve]_vars

\* The record carries no geometry at all.
NoGeometry(room) ==
    DOMAIN room \cap {"bounds", "polygon", "x", "y", "width", "height"} = {}

\* analyze_floor_plan has returned its analysis of the records.
FloorPlanAnalyzed == pc = "start"

SquareAtOrigin(side) == [minX |-> 0, maxX |-> side, minY |-> 0, maxY |-> side]

(* C23: a room record that carries no geometry at all (no bounds, no       *)
(* polygon, no x, y, width or height) is given a bounding box of 1 x 1 by  *)
(* both analyzers.                                                         *)
C23_UnitBoxWithoutGeometry ==
    /\ FloorPlanAnalyzed =>
          \A i \in DOMAIN rooms :
              NoGeometry(floor_plan.rooms[i]) => rooms[i].bounds = SquareAtOrigin(100)
    /\ \A i \in DOMAIN analyzed_rooms :
          NoGeometry(floor_plan.rooms[i]) => analyzed_rooms[i].bounds = SquareAtOrigin(100)

(* C23, as the code has it: a room record that carries no geometry at all  *)
(* is given the box from (0, 0) to (5, 5) by analyze_floor_plan and the    *)
(* box from (0, 0) to (10, 10) by process_stage1_empty_plan.               *)
C23_DefaultBoxWithoutGeometry ==
    /\ FloorPlanAnalyzed =>
          \A i \in DOMAIN rooms :
              NoGeometry(floor_plan.rooms[i]) => rooms[i].bounds = SquareAtOrigin(500)
    /\ \A i \in DOMAIN analyzed_rooms :
          NoGeometry(floor_plan.rooms[i]) => analyzed_rooms[i].bounds = SquareAtOrigin(1000)

\* C23 witness: stage 1 has returned a record without geometry with the box
\* of 10 x 10.
C23_Witness ==
    /\ pc = "stage2"
    /\ \E i \in DOMAIN analyzed_rooms :
          /\ NoGeometry(floor_plan.rooms[i])
          /\ analyzed_rooms[i].bounds = SquareAtOrigin(1000)

---------------------------------------------------------------------------
(* The grid fallback in the pipeline                                       *)

\* Steps 1 to 2.5 of generate_corridor_network on the grid plans.
InitGrid ==
    /\ pc = "start"
    /\ GenerateStart
    /\ EntryStart
    /\ PlacementStart
    /\ AreaStart
    /\ \E size \in NetworkRoomSizes : rooms \in PlanRooms(NetworkColumnXs, size)
    /\ ClusterStart
    /\ room_rows = <<>>
    /\ entrances = <<>>
    /\ bounds = DefaultBounds
    /\ corridor_width \in CorridorWidths
    /\ generate_arrows = TRUE
    /\ NetworkStart

NextGrid ==
    \/ IdentifyClustersAndRows
    \/ GenerateMain
    \/ GridFallback

SpecGrid == InitGrid /\ [][NextGrid]_vars

\* Step 2.5 is over: the corridors are the main or the grid corridors.
FallbackStepDone == pc = "connect"

WithIdPrefix(cs, prefix) == {k \in DOMAIN cs : cs[k].id[1] = prefix}

\* Main-corridor generation produced nothing and there is a room.
FallbackDue == WithIdPrefix(corridors, "main_corridor") = {} /\ rooms # <<>>

\* The candidate levels, every 10 m from the lowest room Y up to the highest,
\* that have at least 2 rooms within 5 m.
KeptLevelSet ==
    LET low == IntMetres(SetMin({rooms[k].centroid.y : k \in DOMAIN rooms}))
        high == IntMetres(SetMax({rooms[k].centroid.y : k \in DOMAIN rooms}))
    IN {y \in {100 * (low + 10 * n) : n \in 0..((high - low) \div 10)} :
            Cardinality({k \in DOMAIN rooms : Abs(rooms[k].centroid.y - y) <= 500}) >= 2}

\* The corridor is to the left of every room's centroid.
LeftOfAllRooms(c) == \A k \in DOMAIN rooms : c.x + c.width <= rooms[k].centroid.x

(* C24: the grid fallback runs if and only if main-corridor generation     *)
(* produced no corridor and there is at least one room; whenever it runs   *)
(* it emits exactly one horizontal corridor per kept Y level and exactly   *)
(* one vertical spine to the left of all rooms.                            *)
C24_GridOneSpineWheneverRun ==
    FallbackStepDone =>
        /\ ~FallbackDue =>
              WithIdPrefix(corridors, "grid_horizontal")
                  \cup WithIdPrefix(corridors, "grid_vertical_spine") = {}
        /\ FallbackDue =>
              /\ Cardinality(WithIdPrefix(corridors, "grid_horizontal"))
                    = Cardinality(KeptLevelSet)
              /\ Cardinality(WithIdPrefix(corridors, "grid_vertical_spine")) = 1
              /\ \A k \in WithIdPrefix(corridors, "grid_vertical_spine") :
                    corridors[k].direction = "vertical" /\ LeftOfAllRooms(corridors[k])

(* C24, as the code has it: the fallback emits its corridors if and only   *)
(* if main-corridor generation produced none and there is a room; it emits *)
(* exactly one horizontal corridor per kept Y level, at that level + 4 m,  *)
(* and one vertical spine left of all room centroids exactly when at least *)
(* one level is kept: with no kept level it emits nothing.                 *)
C24_GridSpineOnlyWithLevels ==
    FallbackStepDone =>
        /\ ~FallbackDue =>
              WithIdPrefix(corridors, "grid_horizontal")
                  \cup WithIdPrefix(corridors, "grid_vertical_spine") = {}
        /\ FallbackDue =>
              /\ Cardinality(WithIdPrefix(corridors, "grid_horizontal"))
                    = Cardinality(KeptLevelSet)
              /\ \A y \in KeptLevelSet :
                    \E k \in WithIdPrefix(corridors, "grid_horizontal") :
                        corridors[k].y = y + 400 /\ corridors[k].direction = "horizontal"
              /\ Cardinality(WithIdPrefix(corridors, "grid_vertical_spine"))
                    = IF KeptLevelSet = {} THEN 0 ELSE 1
              /\ \A k \in WithIdPrefix(corridors, "grid_vertical_spine") :
                    corridors[k].direction = "vertical" /\ LeftOfAllRooms(corridors[k])
              /\ main_corridors = corridors

\* C24 witness: the fallback ran with two kept levels and emitted two
\* horizontal corridors and the spine.
C24_Witness ==
    /\ FallbackStepDone
    /\ FallbackDue
    /\ Cardinality(KeptLevelSet) = 2
    /\ Cardinality(WithIdPrefix(corridors, "grid_horizontal")) = 2
    /\ Cardinality(WithIdPrefix(corridors, "grid_vertical_spine")) = 1

---------------------------------------------------------------------------
(* Rows: step 1 of generate_corridor_network on rooms at close levels      *)

\* Levels 7 m apart chain into one row; the last is 9 m from the third.
RowCentroidXs == {0, 500}

RowCentroidYs == {0, 700, 1400, 2300}

RowRoomLists ==
    {[i \in DOMAIN cs |-> [id |-> i, centroid |-> cs[i]]] :
        cs \in SeqsUpTo([x : RowCentroidXs, y : RowCentroidYs], MaxRooms)}

InitRows ==
    /\ pc = "start"
    /\ GenerateStart
    /\ EntryStart
    /\ PlacementStart
    /\ AreaStart
    /\ rooms \in RowRoomLists
    /\ ClusterStart
    /\ room_rows = <<>>
    /\ DefaultInput
    /\ NetworkStart

SpecRows == InitRows /\ [][IdentifyClustersAndRows]_vars

\* Rooms a and b of the set are consecutive in its Y order, a below b.
ConsecutiveInY(S, a, b) ==
    /\ rooms[a].centroid.y < rooms[b].centroid.y
    /\ ~\E m \in S : rooms[a].centroid.y < rooms[m].centroid.y
                        /\ rooms[m].centroid.y < rooms[b].centroid.y

(* C25: within every emitted row the rooms are in non-decreasing order of  *)
(* centroid X; rooms of a row that are consecutive in its Y order differ   *)
(* in centroid Y by at most 8.0; two rooms that are consecutive in their   *)
(* cluster's Y order and differ in Y by more than 8.0 are never in the     *)
(* same row.                                                               *)
C25_RowsOrderedAndWithinTolerance ==
    RowsReturned =>
        /\ \A r \in DOMAIN room_rows :
              /\ \A k \in 1..(Len(room_rows[r]) - 1) :
                    rooms[room_rows[r][k]].centroid.x <= rooms[room_rows[r][k + 1]].centroid.x
              /\ \A a, b \in RowRooms(r) :
                    ConsecutiveInY(RowRooms(r), a, b) =>
                        rooms[b].centroid.y - rooms[a].centroid.y <= 800
        /\ \A c \in DOMAIN clusters :
              \A a, b \in Range(clusters[c]) :
                  (ConsecutiveInY(Range(clusters[c]), a, b)
                      /\ rooms[b].centroid.y - rooms[a].centroid.y > 800) =>
                          \A r \in DOMAIN room_rows : ~({a, b} \subseteq RowRooms(r))

\* C25 witness: a cluster of four rooms was cut, at a step of 9 m, into a row
\* of three rooms chained over 14 m and re-sorted along X, and a single room.
C25_Witness ==
    /\ RowsReturned
    /\ Len(clusters) = 1
    /\ Len(clusters[1]) = 4
    /\ Len(room_rows) = 1
    /\ Len(room_rows[1]) = 3
    /\ \E a, b \in RowRooms(1) : rooms[b].centroid.y - rooms[a].centroid.y = 1400
    /\ \E a, b \in Range(clusters[1]) :
          ConsecutiveInY(Range(clusters[1]), a, b)
              /\ rooms[b].centroid.y - rooms[a].centroid.y = 900
    /\ \E k \in 1..2 :
          rooms[room_rows[1][k]].centroid.y > rooms[room_rows[1][k + 1]].centroid.y

---------------------------------------------------------------------------
(* Termination of the cluster traversal                                    *)

\* Bound on the number of rooms of the plans the traversal is run to its end on.
MaxLiveRooms == 3

\* Rooms in a line, 10 m apart: neighbours are linked, the ends only through
\* the middle.
LiveRoomLists ==
    {rs \in SeqsUpTo([id : 0..MaxLiveRooms, centroid : [x : {0, 1000, 2000}, y : {0}]],
                     MaxLiveRooms) :
        \A i \in DOMAIN rs : rs[i].id \in RoomIdChoices(i)}

InitClusterLive ==
    /\ pc = "outer"
    /\ GenerateStart
    /\ EntryStart
    /\ PlacementStart
    /\ AreaStart
    /\ rooms \in LiveRoomLists
    /\ ClusterStart
    /\ room_rows = <<>>
    /\ DefaultInput
    /\ NetworkStart

\* The interpreter runs the traversal's next statement: the steps are weakly
\* fair.
NextTraversal ==
    \/ OuterSkip
    \/ OuterExplore
    \/ ScanRecurse
    \/ ScanReturn
    \/ ClusterClose
    \/ ClustersReturn

SpecClusterLive == InitClusterLive /\ [][NextTraversal]_vars /\ WF_vars(NextTraversal)

(* C26: _identify_room_clusters terminates on every room list; each room   *)
(* is explored at most once and is marked visited when its neighbours are  *)
(* scanned, and the traversal evaluates at most n x n centroid distances   *)
(* for n rooms.                                                            *)
C26_ClusteringTerminates ==
    /\ [](/\ Cardinality(Range(explored)) = Len(explored)
          /\ \A k \in DOMAIN explored : rooms[explored[k]].id \in visited
          /\ \A k \in DOMAIN stack : rooms[stack[k].room].id \in visited
          /\ evals <= Len(rooms) * Len(rooms))
    /\ <>ClustersReturned

\* C26 witness: the traversal has returned one cluster after exploring three
\* rooms and evaluating three distances.
C26_Witness ==
    /\ pc = "clustered"
    /\ Len(rooms) = 3
    /\ Len(explored) = 3
    /\ Len(clusters) = 1
    /\ evals >= 3

---------------------------------------------------------------------------
(* Stage 3 of the three-stage processor: entrance access paths             *)

\* _generate_main_spines: the horizontal spine across the bounds.
MainHorizontalSpine(bnds, cw) ==
    Tagged(Corridor(bnds.minX + 100, Half(bnds.minY + bnds.maxY) - Half(cw),
                    bnds.maxX - bnds.minX - 200, cw,
                    (bnds.maxX - bnds.minX - 200) * cw, "horizontal"),
           <<"main_horizontal_spine">>, "main_spine")

\* _generate_main_spines: the vertical spine number i at x_pos.
VerticalSpine(i, x_pos, bnds, cw) ==
    Tagged(Corridor(x_pos - Half(cw), bnds.minY + 100, cw, bnds.maxY - bnds.minY - 200,
                    cw * (bnds.maxY - bnds.minY - 200), "vertical"),
           <<"vertical_spine", i>>, "vertical_spine")

\* _get_entrance_center of the three-stage processor
StageGetEntranceCenter(entrance) ==
    CASE entrance.kind = "center" -> <<entrance.center>>
      [] entrance.kind = "segment" ->
            <<[x |-> Half(entrance.start.x + entrance.end.x),
               y |-> Half(entrance.start.y + entrance.end.y)]>>
      [] OTHER -> <<>>

\* _find_nearest_corridor_to_point: min() keeps the first of the nearest; 0
\* for None.
FindNearestCorridorToPoint(point, cs) ==
    IF cs = <<>> THEN 0
    ELSE CHOOSE k \in DOMAIN cs :
            \A j \in DOMAIN cs :
                \/ Distance2(point, CorridorCenter(cs[k])) < Distance2(point, CorridorCenter(cs[j]))
                \/ (Distance2(point, CorridorCenter(cs[k])) = Distance2(point, CorridorCenter(cs[j]))
                        /\ k <= j)

\* The access_path dictionary of entrance i (0-based).
EntranceAccessPath(i, entrance_center, nearest_corridor, cw) ==
    [id |-> <<"entrance_access", i>>, type |-> "entrance_access",
     x |-> Min2(entrance_center.x, nearest_corridor.x),
     y |-> entrance_center.y - Half(cw),
     width |-> Abs(entrance_center.x - (nearest_corridor.x + Half(nearest_corridor.width))),
     height |-> cw,
     area |-> Abs(entrance_center.x - (nearest_corridor.x + Half(nearest_corridor.width))) * cw,
     connects |-> <<"entrance", i>>, direction |-> "horizontal"]

\* _generate_entrance_access_paths
RECURSIVE EntranceAccessPathsFrom(_, _, _, _)
EntranceAccessPathsFrom(es, i, cs, cw) ==
    IF i > Len(es) THEN <<>>
    ELSE LET entrance_center == StageGetEntranceCenter(es[i])
             nearest == IF entrance_center = <<>> THEN 0
                        ELSE FindNearestCorridorToPoint(entrance_center[1], cs)
         IN (IF nearest = 0 THEN <<>>
             ELSE <<EntranceAccessPath(i - 1, entrance_center[1], cs[nearest], cw)>>)
                \o EntranceAccessPathsFrom(es, i + 1, cs, cw)

GenerateEntranceAccessPaths(es, cs, cw) == EntranceAccessPathsFrom(es, 1, cs, cw)

\* Entrances on the four walls of the bounds, as a centre or as a segment,
\* and one without geometry.
StageEntranceChoices ==
    {[kind |-> "center", center |-> c] :
        c \in {[x |-> 0, y |-> 5000], [x |-> 10000, y |-> 5000], [x |-> 3000, y |-> 0],
               [x |-> 7000, y |-> 10000]}}
        \cup {[kind |-> "segment", start |-> [x |-> 10000, y |-> 4000],
               end |-> [x |-> 10000, y |-> 6000]],
              [kind |-> "none"]}

\* The corridors of steps 1 to 3: the horizontal spine and vertical spines.
StageCorridorLists(cw) ==
    {<<MainHorizontalSpine(DefaultBounds, cw)>>,
     <<MainHorizontalSpine(DefaultBounds, cw), VerticalSpine(0, 2000, DefaultBounds, cw)>>,
     <<MainHorizontalSpine(DefaultBounds, cw), VerticalSpine(0, 2000, DefaultBounds, cw),
       VerticalSpine(1, 8000, DefaultBounds, cw)>>}

InitEntrancePaths ==
    /\ pc = "entrance_paths"
    /\ GenerateStart
    /\ EntryStart
    /\ PlacementStart
    /\ AreaStart
    /\ rooms = <<>>
    /\ ClusterStart
    /\ room_rows = <<>>
    /\ entrances \in SeqsUpTo(StageEntranceChoices, MaxEntrances)
    /\ bounds = DefaultBounds
    /\ corridor_width \in CorridorWidths
    /\ generate_arrows = TRUE
    /\ main_corridors = <<>>
    /\ connecting_corridors = <<>>
    /\ access_corridors = <<>>
    /\ vertical_corridors = <<>>
    /\ corridors \in StageCorridorLists(corridor_width)
    /\ corridor_arrows = <<>>
    /\ optimized_corridors = <<>>
    /\ result = <<>>
    /\ reoptimized = <<>>

\* 4. entrance_corridors = self._generate_entrance_access_paths(...)
\*    corridors.extend(entrance_corridors)
EntranceAccessPaths ==
    /\ pc = "entrance_paths"
    /\ access_corridors' = GenerateEntranceAccessPaths(entrances, corridors, corridor_width)
    /\ corridors' = corridors \o access_corridors'
    /\ pc' = "flow"
    /\ UNCHANGED <<varsCluster, room_rows, varsInput, varsPlacement, varsArea, main_corridors,
                   connecting_corridors, vertical_corridors, corridor_arrows,
                   optimized_corridors, result, reoptimized, varsGenerate, varsEntry>>

SpecEntrancePaths == InitEntrancePaths /\ [][EntranceAccessPaths]_vars

EntrancePathsGenerated == pc = "flow"

\* The corridors the entrance paths were generated for.
SpineCorridors == SubSeq(corridors, 1, Len(corridors) - Len(access_corridors))

(* C27: each 'entrance_access' corridor of stage 3 reaches from the        *)
(* entrance centre to the centre of the corridor nearest to it: its extent *)
(* [x, x + width] has the entrance centre's x at one end and the nearest   *)
(* corridor's centre x at the other, wherever the entrance lies.           *)
C27_EntrancePathReachesEntrance ==
    EntrancePathsGenerated =>
        \A k \in DOMAIN access_corridors :
            LET path == access_corridors[k]
                entrance_center == StageGetEntranceCenter(entrances[path.id[2] + 1])[1]
            IN \E n \in DOMAIN SpineCorridors :
                  /\ \A j \in DOMAIN SpineCorridors :
                        Distance2(entrance_center, CorridorCenter(SpineCorridors[n]))
                            <= Distance2(entrance_center, CorridorCenter(SpineCorridors[j]))
                  /\ {path.x, path.x + path.width}
                        = {entrance_center.x, CorridorCenter(SpineCorridors[n]).x}

---------------------------------------------------------------------------
(* The centroid of a record in the two analyzers                           *)

\* The precedence: the center if there is one, else the centroid, else the
\* average of the polygon's vertices, else (or on a failure) (0, 0).
CentroidByPrecedence(room) ==
    IF Truthy(Get(room, "center", None)) THEN room.center
    ELSE IF Truthy(Get(room, "centroid", None)) THEN room.centroid
    ELSE IF Truthy(Get(room, "polygon", None)) /\ VerticesReadable(room.polygon)
         THEN [x |-> SumSeq([k \in DOMAIN room.polygon |-> VertexX(room.polygon[k])])
                       \div Len(room.polygon),
               y |-> SumSeq([k \in DOMAIN room.polygon |-> VertexY(room.polygon[k])])
                       \div Len(room.polygon)]
    ELSE [x |-> 0, y |-> 0]

(* C28: in both analyzers the centroid of a room record is its center if   *)
(* present, else its centroid, else the average of its polygon's vertices, *)
(* else the fallback (0, 0); a failure while resolving yields the fallback *)
(* and never aborts the batch.                                             *)
C28_CentroidByPrecedence ==
    /\ raised = <<>>
    /\ FloorPlanAnalyzed =>
          /\ Len(rooms) = Len(floor_plan.rooms)
          /\ \A i \in DOMAIN rooms :
                rooms[i].centroid = CentroidByPrecedence(floor_plan.rooms[i])
    /\ \A i \in DOMAIN analyzed_rooms :
          analyzed_rooms[i].centroid = CentroidByPrecedence(floor_plan.rooms[i])

---------------------------------------------------------------------------
(* The statistics of the returned network                                  *)

\* The counts per type the statistics report.
CountsPerType ==
    result.statistics.main_corridors + result.statistics.connecting_corridors
        + result.statistics.access_corridors + result.statistics.vertical_corridors

(* C29: in every non-error result of generate_corridor_network,            *)
(* total_corridors is the length of the returned corridor list,            *)
(* total_corridor_area is the sum of the returned corridors' areas, and    *)
(* total_corridors is at most the sum of the four counts per type, which   *)
(* are taken before optimization.                                          *)
C29_StatisticsMatchCorridors ==
    (NetworkReturned /\ "error" \notin DOMAIN result.metadata) =>
        /\ result.statistics.total_corridors = Len(result.corridors)
        /\ result.statistics.total_corridor_area
              = SumSeq([k \in DOMAIN result.corridors |-> result.corridors[k].area])
        /\ result.statistics.total_corridors <= CountsPerType
        /\ CountsPerType = Len(corridors)
        /\ result.statistics.main_corridors = Len(main_corridors)
        /\ result.statistics.access_corridors = Len(access_corridors)

\* C29 witness: a network was returned with corridors of positive area,
\* fewer of them than the counts per type add up to.
C29_Witness ==
    /\ NetworkReturned
    /\ "error" \notin DOMAIN result.metadata
    /\ result.statistics.total_corridors >= 1
    /\ result.statistics.total_corridors < CountsPerType
    /\ result.statistics.total_corridor_area > 0

---------------------------------------------------------------------------
(* The single merge pass of the Optimizer                                  *)

\* A corridor dictionary without the key 'area'.
WithoutArea(c) == [k \in DOMAIN c \ {"area"} |-> c[k]]

\* Three corridors end to end on one line, a corridor of exactly 2.0 m2
\* and a corridor without an area, both touching the end of the line.
PassPool ==
    {Corridor(0, 1940, 2000, 120, 240000, "horizontal"),
     Corridor(2000, 1940, 2000, 120, 240000, "horizontal"),
     Corridor(4000, 1940, 2000, 120, 240000, "horizontal"),
     Corridor(6000, 1940, 160, 125, 20000, "horizontal"),
     WithoutArea(Corridor(6000, 1940, 2000, 120, 0, "horizontal"))}

InitPass ==
    /\ pc = "optimize"
    /\ GenerateStart
    /\ EntryStart
    /\ PlacementStart
    /\ AreaStart
    /\ rooms = <<>>
    /\ ClusterStart
    /\ room_rows = <<>>
    /\ DefaultInput
    /\ main_corridors = <<>>
    /\ connecting_corridors = <<>>
    /\ access_corridors = <<>>
    /\ vertical_corridors = <<>>
    /\ corridors \in {[i \in DOMAIN cs |-> Tagged(cs[i], <<"access_corridor", i - 1>>, "access")] :
                        cs \in SeqsUpTo(PassPool, MaxCorridors)}
    /\ corridor_arrows = <<>>
    /\ optimized_corridors = <<>>
    /\ result = <<>>
    /\ reoptimized = <<>>

SpecPass == InitPass /\ [][NextOpt]_vars

\* The ids of the input corridors a returned corridor was made of:
\* f"merged_{id1}_{id2}" names the two it was merged from.
RECURSIVE SourceIds(_)
SourceIds(id) ==
    IF id # <<>> /\ id[1] = "merged"
    THEN SourceIds(id[2]) \cup SourceIds(id[3])
    ELSE {id}

\* The returned corridors input corridor i is a source of.
OutputsOf(i) ==
    {k \in DOMAIN optimized_corridors :
        corridors[i].id \in SourceIds(optimized_corridors[k].id)}

RectangleWithin(c, o) ==
    /\ o.x <= c.x
    /\ c.x + c.width <= o.x + o.width
    /\ o.y <= c.y
    /\ c.y + c.height <= o.y + o.height

HasAreaAboveMinimum(c) == "area" \in DOMAIN c /\ c.area > min_corridor_area

(* C30: the Optimizer's single merge pass consumes each input corridor at  *)
(* most once: every input corridor with area > 2.0 is a source of exactly  *)
(* one returned corridor, itself or one merged corridor, whose rectangle   *)
(* contains its own; every input corridor with area <= 2.0 or without an   *)
(* area is dropped; the output never has more corridors than the input;    *)
(* on the empty list the output is the empty list.                         *)
C30_EachCorridorConsumedOnce ==
    OptimizerReturned =>
        /\ \A i \in DOMAIN corridors :
              IF HasAreaAboveMinimum(corridors[i])
              THEN /\ Cardinality(OutputsOf(i)) = 1
                   /\ \A k \in OutputsOf(i) :
                         RectangleWithin(corridors[i], optimized_corridors[k])
              ELSE OutputsOf(i) = {}
        /\ \A k \in DOMAIN optimized_corridors :
              SourceIds(optimized_corridors[k].id) \subseteq
                  {corridors[i].id : i \in DOMAIN corridors}
        /\ Len(optimized_corridors) <= Len(corridors)
        /\ corridors = <<>> => optimized_corridors = <<>>

\* C30 witness: of three corridors two were merged out of order into one
\* returned corridor and the third, without an area, was dropped.
C30_Witness ==
    /\ OptimizerReturned
    /\ Len(corridors) = 3
    /\ "area" \notin DOMAIN corridors[2]
    /\ Len(optimized_corridors) = 1
    /\ optimized_corridors[1].id
          = <<"merged", <<"access_corridor", 0>>, <<"access_corridor", 2>>>>
    /\ optimized_corridors[1].x = 0
    /\ optimized_corridors[1].width = 4000

====
